---- MODULE Spec2Model ----
EXTENDS Integers, Sequences, FiniteSets, TLC

(***************************************************************************)
(* russh-config: the OpenSSH-style client configuration parser (parse),    *)
(* the percent-token expander (Config::expand_tokens), the host pattern    *)
(* matcher (check_host_against_glob_pattern) and stream establishment      *)
(* (Config::stream).                                                       *)
(*                                                                         *)
(* A string is a sequence of one-character strings.  Option<T> is a        *)
(* sequence of length 0 (None) or 1 (Some(x)).                             *)
(***************************************************************************)

VARIABLES file, host, home, lines, pos, config, matches_current, ret,
          spc, calls, sret, second

vars == <<file, host, home, lines, pos, config, matches_current, ret,
          spc, calls, sret, second>>

None == <<>>
Some(x) == <<x>>

\* ------------------------------------------------------------------------
\* Standard-library string operations used by the parser
\* ------------------------------------------------------------------------

\* char::is_whitespace, restricted to the characters of the model's alphabet
IsWhitespace(c) == c \in {" ", "\t", "\r", "\n"}

RECURSIVE TrimStart(_)
\* str::trim_start
TrimStart(s) ==
    IF s # <<>> /\ IsWhitespace(Head(s)) THEN TrimStart(Tail(s)) ELSE s

RECURSIVE TrimEnd(_)
\* str::trim_end
TrimEnd(s) ==
    IF s # <<>> /\ IsWhitespace(s[Len(s)])
    THEN TrimEnd(SubSeq(s, 1, Len(s) - 1))
    ELSE s

\* str::trim
Trim(s) == TrimEnd(TrimStart(s))

\* str::starts_with / str::ends_with
StartsWith(s, p) == Len(p) <= Len(s) /\ SubSeq(s, 1, Len(p)) = p
EndsWith(s, p) == Len(p) <= Len(s) /\ SubSeq(s, Len(s) - Len(p) + 1, Len(s)) = p

\* the line ending that str::lines removes besides the line feed
StripCr(l) ==
    IF l # <<>> /\ l[Len(l)] = "\r" THEN SubSeq(l, 1, Len(l) - 1) ELSE l

\* position of the first occurrence of character c in s, 0 if none
FirstIndex(s, c) ==
    IF \E i \in 1..Len(s) : s[i] = c
    THEN CHOOSE i \in 1..Len(s) : s[i] = c /\ \A j \in 1..(i - 1) : s[j] # c
    ELSE 0

RECURSIVE LinesFrom(_)
\* the lines of what is left of the text, one line for each step: up to the
\* next line feed, or the rest of the text if it is not empty
LinesFrom(text) ==
    IF text = <<>> THEN <<>>
    ELSE LET k == FirstIndex(text, "\n")
         IN IF k = 0 THEN <<text>>
            ELSE <<StripCr(SubSeq(text, 1, k - 1))>>
                 \o LinesFrom(SubSeq(text, k + 1, Len(text)))

\* str::lines: split at line feeds, "\r\n" counts as one ending, no empty
\* last line after a final line feed
Lines(text) == LinesFrom(text)

\* a split that always gives two pieces, the second one empty when there
\* is no space
SplitN2Padded(s) ==
    LET k == FirstIndex(s, " ")
    IN IF k = 0 THEN <<s, <<>>>>
       ELSE <<SubSeq(s, 1, k - 1), SubSeq(s, k + 1, Len(s))>>

\* str::splitn(2, ' '): at most two pieces, cut at the first space
SplitN2(s) ==
    LET k == FirstIndex(s, " ")
    IN IF k = 0 THEN <<s>>
       ELSE <<SubSeq(s, 1, k - 1), SubSeq(s, k + 1, Len(s))>>

Upper == <<"A", "B", "C", "D", "E", "F", "G", "H", "I", "J", "K", "L", "M",
           "N", "O", "P", "Q", "R", "S", "T", "U", "V", "W", "X", "Y", "Z">>
Lower == <<"a", "b", "c", "d", "e", "f", "g", "h", "i", "j", "k", "l", "m",
           "n", "o", "p", "q", "r", "s", "t", "u", "v", "w", "x", "y", "z">>

LowerChar(c) ==
    IF \E i \in 1..Len(Upper) : Upper[i] = c
    THEN Lower[CHOOSE i \in 1..Len(Upper) : Upper[i] = c]
    ELSE c

\* str::to_lowercase
ToLowercase(s) == [i \in 1..Len(s) |-> LowerChar(s[i])]

RECURSIVE SplitWsFrom(_, _)
SplitWsFrom(s, cur) ==
    IF s = <<>>
    THEN (IF cur = <<>> THEN <<>> ELSE <<cur>>)
    ELSE IF IsWhitespace(Head(s))
         THEN (IF cur = <<>> THEN <<>> ELSE <<cur>>) \o SplitWsFrom(Tail(s), <<>>)
         ELSE SplitWsFrom(Tail(s), Append(cur, Head(s)))

\* str::split_whitespace: the non-empty pieces between runs of whitespace
SplitWhitespace(s) == SplitWsFrom(s, <<>>)

RECURSIVE SplitCharFrom(_, _)
\* the pieces of what is left of s, one piece for each step
SplitCharFrom(s, c) ==
    LET k == FirstIndex(s, c)
    IN IF k = 0 THEN <<s>>
       ELSE <<SubSeq(s, 1, k - 1)>> \o SplitCharFrom(SubSeq(s, k + 1, Len(s)), c)

\* str::split(' '): every piece between two separators, empty ones included
SplitChar(s, c) == SplitCharFrom(s, c)

RECURSIVE Replace(_, _, _)
\* str::replace: every non-overlapping occurrence, found left to right
Replace(s, from, to) ==
    IF s = <<>> THEN <<>>
    ELSE IF StartsWith(s, from)
         THEN to \o Replace(SubSeq(s, Len(from) + 1, Len(s)), from, to)
         ELSE <<Head(s)>> \o Replace(Tail(s), from, to)

Digits == <<"0", "1", "2", "3", "4", "5", "6", "7", "8", "9">>
IsDigit(c) == \E i \in 1..Len(Digits) : Digits[i] = c
DigitValue(c) == (CHOOSE i \in 1..Len(Digits) : Digits[i] = c) - 1

U16Max == 65535

RECURSIVE FormatU16(_)
\* format!("{}", port): decimal, no leading zeros
FormatU16(n) ==
    IF n < 10 THEN <<Digits[n + 1]>>
    ELSE FormatU16(n \div 10) \o <<Digits[(n % 10) + 1]>>

RECURSIVE ParseDigitsUnchecked(_, _)
\* the accumulation without the overflow check
ParseDigitsUnchecked(s, acc) ==
    IF s = <<>> THEN Some(acc)
    ELSE IF ~IsDigit(Head(s)) THEN None
    ELSE ParseDigitsUnchecked(Tail(s), acc * 10 + DigitValue(Head(s)))

RECURSIVE ParseDigits(_, _)
\* checked accumulation of u16::from_str: None on a non-digit or on overflow
ParseDigits(s, acc) ==
    IF s = <<>> THEN Some(acc)
    ELSE IF ~IsDigit(Head(s)) THEN None
    ELSE LET next == acc * 10 + DigitValue(Head(s))
         IN IF next > U16Max THEN None ELSE ParseDigits(Tail(s), next)

\* str::parse::<u16>: one optional leading '+', then at least one digit
ParseU16(s) ==
    IF s = <<>> THEN None
    ELSE IF Len(s) = 1 /\ Head(s) \in {"+", "-"} THEN None
    ELSE IF Head(s) = "+" THEN ParseDigits(Tail(s), 0)
    ELSE ParseDigits(s, 0)

\* ------------------------------------------------------------------------
\* Host pattern matcher (globset::Glob with its default options, on the
\* pattern characters the model uses: literals, ?, *, [..] classes of listed
\* characters with optional ! or ^ negation, and the backslash escape)
\* ------------------------------------------------------------------------

RECURSIVE GlobClass(_, _, _, _)
\* the body of a character class, after "[" and the optional negation:
\* a "]" that comes first is a member, the next "]" closes the class,
\* and the end of the pattern before that is UnclosedClass
GlobClass(p, neg, members, first) ==
    IF p = <<>> THEN [ok |-> FALSE, tok |-> <<>>, rest |-> <<>>]
    ELSE IF Head(p) = "]" /\ ~first
         THEN [ok |-> TRUE,
               tok |-> [t |-> "class", neg |-> neg, set |-> members],
               rest |-> Tail(p)]
         ELSE GlobClass(Tail(p), neg, members \cup {Head(p)}, FALSE)

RECURSIVE GlobParse(_)
\* Glob::new: the token sequence of a pattern, or ok = FALSE when the
\* pattern does not compile (unclosed class, dangling escape)
GlobParse(p) ==
    IF p = <<>> THEN [ok |-> TRUE, toks |-> <<>>]
    ELSE LET c == Head(p)
             one == IF c = "?"
                    THEN [ok |-> TRUE, tok |-> [t |-> "any"], rest |-> Tail(p)]
                    ELSE IF c = "*"
                    THEN [ok |-> TRUE, tok |-> [t |-> "star"], rest |-> Tail(p)]
                    ELSE IF c = "["
                    THEN (IF Tail(p) # <<>> /\ Head(Tail(p)) \in {"!", "^"}
                          THEN GlobClass(Tail(Tail(p)), TRUE, {}, TRUE)
                          ELSE GlobClass(Tail(p), FALSE, {}, TRUE))
                    ELSE IF c = "\\"
                    THEN (IF Tail(p) = <<>>
                          THEN [ok |-> FALSE, tok |-> <<>>, rest |-> <<>>]
                          ELSE [ok |-> TRUE,
                                tok |-> [t |-> "lit", c |-> Head(Tail(p))],
                                rest |-> Tail(Tail(p))])
                    ELSE [ok |-> TRUE, tok |-> [t |-> "lit", c |-> c],
                          rest |-> Tail(p)]
         IN IF ~one.ok THEN [ok |-> FALSE, toks |-> <<>>]
            ELSE LET more == GlobParse(one.rest)
                 IN IF ~more.ok THEN [ok |-> FALSE, toks |-> <<>>]
                    ELSE [ok |-> TRUE, toks |-> <<one.tok>> \o more.toks]

RECURSIVE IsMatch(_, _)
\* GlobMatcher::is_match: the whole candidate against the whole pattern
IsMatch(toks, s) ==
    IF toks = <<>> THEN s = <<>>
    ELSE LET k == Head(toks)
         IN IF k.t = "star"
            THEN IsMatch(Tail(toks), s) \/ (s # <<>> /\ IsMatch(toks, Tail(s)))
            ELSE /\ s # <<>>
                 /\ CASE k.t = "any" -> TRUE
                      [] k.t = "lit" -> Head(s) = k.c
                      [] k.t = "class" -> (Head(s) \in k.set) # k.neg
                 /\ IsMatch(Tail(toks), Tail(s))

\* fn check_host_against_glob_pattern: a pattern that does not compile
\* matches nothing
check_host_against_glob_pattern(candidate, glob_pattern) ==
    LET g == GlobParse(glob_pattern)
    IN IF g.ok THEN IsMatch(g.toks, candidate) ELSE FALSE

\* ------------------------------------------------------------------------
\* The connection profile
\* ------------------------------------------------------------------------

\* whoami::username(), the current process user
CurrentUser == <<"m", "e">>

DefaultPort == 22

\* Config::default
ConfigDefault(host_name) ==
    [user |-> CurrentUser,
     host_name |-> host_name,
     port |-> DefaultPort,
     identity_file |-> None,
     proxy_command |-> None,
     proxy_jump |-> None,
     add_keys_to_agent |-> "No",
     user_known_hosts_file |-> None,
     strict_host_key_checking |-> TRUE]

\* expand_tokens with the "%%" pass made first
expand_tokensPercentFirst(self, original) ==
    LET s0 == Replace(original, <<"%", "%">>, <<"%">>)
        s1 == Replace(s0, <<"%", "u">>, self.user)
        s2 == Replace(s1, <<"%", "h">>, self.host_name)
        s3 == Replace(s2, <<"%", "H">>, self.host_name)
        s4 == Replace(s3, <<"%", "p">>, FormatU16(self.port))
    IN s4

\* Config::expand_tokens: five replace-all passes, each on the result of
\* the one before
expand_tokens(self, original) ==
    LET s1 == Replace(original, <<"%", "u">>, self.user)
        s2 == Replace(s1, <<"%", "h">>, self.host_name)
        s3 == Replace(s2, <<"%", "H">>, self.host_name)
        s4 == Replace(s3, <<"%", "p">>, FormatU16(self.port))
        s5 == Replace(s4, <<"%", "%">>, <<"%">>)
    IN s5

\* ------------------------------------------------------------------------
\* Home directory (home::home_dir) and path building
\* ------------------------------------------------------------------------

\* a byte of a path that is not valid UTF-8
BadByte == "<FF>"

\* PathBuf::push on Unix: an absolute argument replaces the path, otherwise
\* it is appended, after a separator unless the path already ends with one
PathPush(path, p) ==
    IF p # <<>> /\ Head(p) = "/" THEN p
    ELSE IF path # <<>> /\ path[Len(path)] # "/" THEN path \o <<"/">> \o p
    ELSE path \o p

\* Path::to_str: None unless the path is valid UTF-8
PathToStr(path) ==
    IF \E i \in 1..Len(path) : path[i] = BadByte THEN None ELSE Some(path)

\* ------------------------------------------------------------------------
\* parse: the directive keys, lower-cased for dispatch
\* ------------------------------------------------------------------------

kw_host == <<"h", "o", "s", "t">>
kw_user == <<"u", "s", "e", "r">>
kw_hostname == <<"h", "o", "s", "t", "n", "a", "m", "e">>
kw_port == <<"p", "o", "r", "t">>
kw_identityfile == <<"i", "d", "e", "n", "t", "i", "t", "y", "f", "i", "l", "e">>
kw_proxycommand == <<"p", "r", "o", "x", "y", "c", "o", "m", "m", "a", "n", "d">>
kw_proxyjump == <<"p", "r", "o", "x", "y", "j", "u", "m", "p">>
kw_addkeystoagent == <<"a", "d", "d", "k", "e", "y", "s", "t", "o", "a", "g", "e", "n", "t">>
kw_userknownhostsfile == <<"u", "s", "e", "r", "k", "n", "o", "w", "n", "h", "o", "s", "t", "s", "f", "i", "l", "e">>
kw_stricthostkeychecking == <<"s", "t", "r", "i", "c", "t", "h", "o", "s", "t", "k", "e", "y", "c", "h", "e", "c", "k", "i", "n", "g">>

\* &id[1..id.len() - 1]: None stands for the panic of a slice whose start
\* lies behind its end
SliceInner(id) ==
    IF 1 <= Len(id) - 1 THEN Some(SubSeq(id, 2, Len(id) - 1)) ELSE None

\* id.split_at(2).1: None stands for the panic of a split point behind the end
SplitAt2Tail(id) ==
    IF 2 <= Len(id) THEN Some(SubSeq(id, 3, Len(id))) ELSE None

\* the "host" arm with all() in the place of any()
HostArmAll(alias, value) ==
    LET pats == SplitWhitespace(value)
    IN \A i \in 1..Len(pats) : check_host_against_glob_pattern(alias, pats[i])

\* the "host" arm: any pattern of the line matches the alias
HostArm(alias, value) ==
    LET pats == SplitWhitespace(value)
    IN \E i \in 1..Len(pats) : check_host_against_glob_pattern(alias, pats[i])

\* the "user" arm keeping the first value a matching block gave
UserArmFirstWins(cfg, value) ==
    IF cfg.user = CurrentUser THEN [cfg EXCEPT !.user = TrimStart(value)] ELSE cfg

\* the "user" arm
UserArm(cfg, value) == [cfg EXCEPT !.user = TrimStart(value)]

\* the "hostname" arm: expanded against the profile as it is at this line
HostnameArmDeferred(cfg, value) ==
    [cfg EXCEPT !.host_name = TrimStart(value)]

HostnameArm(cfg, value) ==
    [cfg EXCEPT !.host_name = expand_tokens(cfg, TrimStart(value))]

\* the "port" arm: a value that does not parse leaves the port alone
PortArm(cfg, value) ==
    LET port == ParseU16(TrimStart(value))
    IN IF port # None THEN [cfg EXCEPT !.port = port[1]] ELSE cfg

\* the "identityfile" arm with the length test of the quote check left out
IdentityFileArmNoLengthTest(value, homedir) ==
    LET id0 == TrimStart(value)
        quoted == StartsWith(id0, <<"'">>) /\ EndsWith(id0, <<"'">>)
        inner == IF quoted THEN SliceInner(id0) ELSE Some(id0)
    IN IF inner = None THEN [kind |-> "Panic", val |-> None]
       ELSE LET id == inner[1]
            IN IF StartsWith(id, <<"~", "/">>)
               THEN IF homedir # None
                    THEN LET rest == SplitAt2Tail(id)
                         IN IF rest = None THEN [kind |-> "Panic", val |-> None]
                            ELSE LET str == PathToStr(PathPush(homedir[1], rest[1]))
                                 IN IF str = None
                                    THEN [kind |-> "Io", val |-> None]
                                    ELSE [kind |-> "Set", val |-> Some(str[1])]
                    ELSE [kind |-> "NoHome", val |-> None]
               ELSE [kind |-> "Set", val |-> Some(id)]

\* the "identityfile" arm keeping the value as written when there is no
\* home directory
IdentityFileArmKeepsTilde(value, homedir) ==
    LET id0 == TrimStart(value)
        quoted == Len(id0) > 1 /\ StartsWith(id0, <<"'">>) /\ EndsWith(id0, <<"'">>)
        inner == IF quoted THEN SliceInner(id0) ELSE Some(id0)
    IN IF inner = None THEN [kind |-> "Panic", val |-> None]
       ELSE LET id == inner[1]
            IN IF StartsWith(id, <<"~", "/">>) /\ homedir # None
               THEN LET rest == SplitAt2Tail(id)
                    IN IF rest = None THEN [kind |-> "Panic", val |-> None]
                       ELSE LET str == PathToStr(PathPush(homedir[1], rest[1]))
                            IN IF str = None
                               THEN [kind |-> "Io", val |-> None]
                               ELSE [kind |-> "Set", val |-> Some(str[1])]
               ELSE [kind |-> "Set", val |-> Some(id)]

\* the "identityfile" arm: kind is Set (with the stored value), NoHome, Io
\* or Panic
IdentityFileArm(value, homedir) ==
    LET id0 == TrimStart(value)
        quoted == Len(id0) > 1 /\ StartsWith(id0, <<"'">>) /\ EndsWith(id0, <<"'">>)
        inner == IF quoted THEN SliceInner(id0) ELSE Some(id0)
    IN IF inner = None THEN [kind |-> "Panic", val |-> None]
       ELSE LET id == inner[1]
            IN IF StartsWith(id, <<"~", "/">>)
               THEN IF homedir # None
                    THEN LET rest == SplitAt2Tail(id)
                         IN IF rest = None THEN [kind |-> "Panic", val |-> None]
                            ELSE LET str == PathToStr(PathPush(homedir[1], rest[1]))
                                 IN IF str = None
                                    THEN [kind |-> "Io", val |-> None]
                                    ELSE [kind |-> "Set", val |-> Some(str[1])]
                    ELSE [kind |-> "NoHome", val |-> None]
               ELSE [kind |-> "Set", val |-> Some(id)]

\* the "proxycommand" and "proxyjump" arms: stored unexpanded
ProxyCommandArmExpandsAtParse(cfg, value) ==
    [cfg EXCEPT !.proxy_command = Some(expand_tokens(cfg, TrimStart(value)))]

ProxyCommandArm(cfg, value) == [cfg EXCEPT !.proxy_command = Some(TrimStart(value))]

\* the "proxyjump" arm writing the field of the arm above it
ProxyJumpArmSetsCommand(cfg, value) ==
    [cfg EXCEPT !.proxy_command = Some(TrimStart(value))]

ProxyJumpArm(cfg, value) == [cfg EXCEPT !.proxy_jump = Some(TrimStart(value))]

\* the "addkeystoagent" arm comparing the value as written
AddKeysToAgentArmCaseSensitive(cfg, value) ==
    [cfg EXCEPT !.add_keys_to_agent =
        IF value = <<"y", "e", "s">> THEN "Yes"
        ELSE IF value = <<"c", "o", "n", "f", "i", "r", "m">> THEN "Confirm"
        ELSE IF value = <<"a", "s", "k">> THEN "Ask"
        ELSE "No"]

\* the "addkeystoagent" arm with the value trimmed like the values of the
\* arms above it
AddKeysToAgentArmTrimmed(cfg, value) ==
    LET v == ToLowercase(TrimStart(value))
    IN [cfg EXCEPT !.add_keys_to_agent =
            IF v = <<"y", "e", "s">> THEN "Yes"
            ELSE IF v = <<"c", "o", "n", "f", "i", "r", "m">> THEN "Confirm"
            ELSE IF v = <<"a", "s", "k">> THEN "Ask"
            ELSE "No"]

\* the "addkeystoagent" arm: the value is lower-cased, not trimmed
AddKeysToAgentArm(cfg, value) ==
    LET v == ToLowercase(value)
    IN [cfg EXCEPT !.add_keys_to_agent =
            IF v = <<"y", "e", "s">> THEN "Yes"
            ELSE IF v = <<"c", "o", "n", "f", "i", "r", "m">> THEN "Confirm"
            ELSE IF v = <<"a", "s", "k">> THEN "Ask"
            ELSE "No"]

\* the "userknownhostsfile" arm without the quote stripping
UserKnownHostsFileArmKeepsQuotes(value, homedir) ==
    LET id == TrimStart(value)
    IN IF StartsWith(id, <<"~", "/">>)
       THEN IF homedir # None
            THEN LET rest == SplitAt2Tail(id)
                 IN IF rest = None THEN [kind |-> "Panic", val |-> None]
                    ELSE LET str == PathToStr(PathPush(homedir[1], rest[1]))
                         IN IF str = None
                            THEN [kind |-> "Io", val |-> None]
                            ELSE [kind |-> "Set", val |-> Some(str[1])]
            ELSE [kind |-> "NoHome", val |-> None]
       ELSE [kind |-> "Set", val |-> Some(id)]

\* the "userknownhostsfile" arm, written out a second time in the source
UserKnownHostsFileArm(value, homedir) ==
    LET id0 == TrimStart(value)
        quoted == Len(id0) > 1 /\ StartsWith(id0, <<"'">>) /\ EndsWith(id0, <<"'">>)
        inner == IF quoted THEN SliceInner(id0) ELSE Some(id0)
    IN IF inner = None THEN [kind |-> "Panic", val |-> None]
       ELSE LET id == inner[1]
            IN IF StartsWith(id, <<"~", "/">>)
               THEN IF homedir # None
                    THEN LET rest == SplitAt2Tail(id)
                         IN IF rest = None THEN [kind |-> "Panic", val |-> None]
                            ELSE LET str == PathToStr(PathPush(homedir[1], rest[1]))
                                 IN IF str = None
                                    THEN [kind |-> "Io", val |-> None]
                                    ELSE [kind |-> "Set", val |-> Some(str[1])]
                    ELSE [kind |-> "NoHome", val |-> None]
               ELSE [kind |-> "Set", val |-> Some(id)]

\* the "stricthostkeychecking" arm leaving the flag alone for a value it
\* does not know
StrictHostKeyCheckingArmKeeps(cfg, value) ==
    LET v == ToLowercase(value)
    IN IF v = <<"n", "o">> THEN [cfg EXCEPT !.strict_host_key_checking = FALSE]
       ELSE IF v = <<"y", "e", "s">> THEN [cfg EXCEPT !.strict_host_key_checking = TRUE]
       ELSE cfg

\* the "stricthostkeychecking" arm: the value is lower-cased, not trimmed
StrictHostKeyCheckingArm(cfg, value) ==
    [cfg EXCEPT !.strict_host_key_checking = (ToLowercase(value) # <<"n", "o">>)]

\* match lower.as_str(): the profile after the directive and how the
\* iteration ends (Continue, or the error or panic that ends parse)
Dispatch(cfg, lower, value, homedir) ==
    CASE lower = kw_user -> [config |-> UserArm(cfg, value), out |-> "Continue"]
      [] lower = kw_hostname -> [config |-> HostnameArm(cfg, value), out |-> "Continue"]
      [] lower = kw_port -> [config |-> PortArm(cfg, value), out |-> "Continue"]
      [] lower = kw_identityfile ->
            LET r == IdentityFileArm(value, homedir)
            IN IF r.kind = "Set"
               THEN [config |-> [cfg EXCEPT !.identity_file = r.val], out |-> "Continue"]
               ELSE [config |-> cfg, out |-> r.kind]
      [] lower = kw_proxycommand -> [config |-> ProxyCommandArm(cfg, value), out |-> "Continue"]
      [] lower = kw_proxyjump -> [config |-> ProxyJumpArm(cfg, value), out |-> "Continue"]
      [] lower = kw_addkeystoagent -> [config |-> AddKeysToAgentArm(cfg, value), out |-> "Continue"]
      [] lower = kw_userknownhostsfile ->
            LET r == UserKnownHostsFileArm(value, homedir)
            IN IF r.kind = "Set"
               THEN [config |-> [cfg EXCEPT !.user_known_hosts_file = r.val], out |-> "Continue"]
               ELSE [config |-> cfg, out |-> r.kind]
      [] lower = kw_stricthostkeychecking ->
            [config |-> StrictHostKeyCheckingArm(cfg, value), out |-> "Continue"]
      [] OTHER -> [config |-> cfg, out |-> "Continue"]

\* one iteration with a flag that, once set, is never cleared by a later
\* Host line
LineStepSticky(cfg, mc, line, alias, homedir) ==
    LET tokens == SplitN2(Trim(line))
    IN IF Len(tokens) # 2
       THEN [config |-> cfg, mc |-> mc, out |-> "Continue"]
       ELSE LET key == tokens[1]
                value == tokens[2]
                lower == ToLowercase(key)
                mc2 == IF lower = kw_host THEN mc \/ HostArm(alias, value)
                       ELSE mc
            IN IF mc2
               THEN LET d == Dispatch(cfg, lower, value, homedir)
                    IN [config |-> d.config, mc |-> mc2, out |-> d.out]
               ELSE [config |-> cfg, mc |-> mc2, out |-> "Continue"]

\* one iteration of the loop over file.lines()
LineStep(cfg, mc, line, alias, homedir) ==
    LET tokens == SplitN2(Trim(line))
    IN IF Len(tokens) # 2
       THEN [config |-> cfg, mc |-> mc, out |-> "Continue"]
       ELSE LET key == tokens[1]
                value == tokens[2]
                lower == ToLowercase(key)
                mc2 == IF lower = kw_host THEN HostArm(alias, value) ELSE mc
            IN IF mc2
               THEN LET d == Dispatch(cfg, lower, value, homedir)
                    IN [config |-> d.config, mc |-> mc2, out |-> d.out]
               ELSE [config |-> cfg, mc |-> mc2, out |-> "Continue"]

Running == [kind |-> "Running", profile |-> None]

\* parse, one line: the next line of the iterator is processed; an error
\* (or panic) ends parse without a profile
ParseLine ==
    /\ ret.kind = "Running"
    /\ pos < Len(lines)
    /\ LET r == LineStep(config, matches_current, lines[pos + 1], host, home)
       IN /\ pos' = pos + 1
          /\ config' = r.config
          /\ matches_current' = r.mc
          /\ ret' = IF r.out = "Continue" THEN ret
                    ELSE [kind |-> r.out, profile |-> None]
    /\ UNCHANGED <<file, host, home, lines, spc, calls, sret, second>>

\* parse, after the last line: Ok(config)
ParseReturn ==
    /\ ret.kind = "Running"
    /\ pos = Len(lines)
    /\ ret' = [kind |-> "Ok", profile |-> Some(config)]
    /\ UNCHANGED <<file, host, home, lines, pos, config, matches_current,
                   spc, calls, sret, second>>

\* parse called a second time while the first call is under way: the call
\* has its own file, host, iterator, config and matches_current (they are
\* parameters and locals of parse); the home directory is the process's
NoSecond ==
    [file |-> <<>>, host |-> <<>>, lines |-> <<>>, pos |-> 0,
     config |-> ConfigDefault(<<>>), matches_current |-> FALSE,
     ret |-> [kind |-> "Absent", profile |-> None]]

\* the second call if matches_current were one flag of the process rather
\* than a local of each call
ParseLineSecondSharedFlag ==
    /\ second.ret.kind = "Running"
    /\ second.pos < Len(second.lines)
    /\ LET r == LineStep(second.config, matches_current,
                         second.lines[second.pos + 1], second.host, home)
       IN /\ second' = [second EXCEPT
                 !.pos = @ + 1,
                 !.config = r.config,
                 !.ret = IF r.out = "Continue" THEN @
                         ELSE [kind |-> r.out, profile |-> None]]
          /\ matches_current' = r.mc
    /\ UNCHANGED <<file, host, home, lines, pos, config, ret, spc, calls, sret>>

\* the second call, one line
ParseLineSecond ==
    /\ second.ret.kind = "Running"
    /\ second.pos < Len(second.lines)
    /\ LET r == LineStep(second.config, second.matches_current,
                         second.lines[second.pos + 1], second.host, home)
       IN second' = [second EXCEPT
              !.pos = @ + 1,
              !.config = r.config,
              !.matches_current = r.mc,
              !.ret = IF r.out = "Continue" THEN @
                      ELSE [kind |-> r.out, profile |-> None]]
    /\ UNCHANGED <<file, host, home, lines, pos, config, matches_current, ret,
                   spc, calls, sret>>

\* the second call, after its last line: Ok(config)
ParseReturnSecond ==
    /\ second.ret.kind = "Running"
    /\ second.pos = Len(second.lines)
    /\ second' = [second EXCEPT
           !.ret = [kind |-> "Ok", profile |-> Some(second.config)]]
    /\ UNCHANGED <<file, host, home, lines, pos, config, matches_current, ret,
                   spc, calls, sret>>

NextTwo == ParseLine \/ ParseReturn \/ ParseLineSecond \/ ParseReturnSecond

RECURSIVE ParseFrom(_, _, _, _, _, _)
\* parse from line i on, run by itself to its return
ParseFrom(ls, i, cfg, mc, alias, homedir) ==
    IF i > Len(ls) THEN [kind |-> "Ok", profile |-> Some(cfg)]
    ELSE LET r == LineStep(cfg, mc, ls[i], alias, homedir)
         IN IF r.out = "Continue"
            THEN ParseFrom(ls, i + 1, r.config, r.mc, alias, homedir)
            ELSE [kind |-> r.out, profile |-> None]

\* parse(file, host) run by itself
ParseAlone(text, alias, homedir) ==
    ParseFrom(Lines(text), 1, ConfigDefault(alias), FALSE, alias, homedir)

\* ------------------------------------------------------------------------
\* Config::stream
\* ------------------------------------------------------------------------

\* what the resolver (ToSocketAddrs) can answer: an error, or the
\* candidate addresses in order
ResolveOutcomes ==
    {[ok |-> FALSE, addrs |-> <<>>],
     [ok |-> TRUE, addrs |-> <<>>],
     [ok |-> TRUE, addrs |-> <<"addr1">>],
     [ok |-> TRUE, addrs |-> <<"addr1", "addr2">>]}

\* the last of the resolved addresses in the place of the first
LastAddress(addrs) == addrs[Len(addrs)]

\* .next() on the resolved addresses
FirstAddress(addrs) == addrs[1]

\* the command name and the arguments with runs of white space taken as one
\* separator
ProxyCallCollapsing(self) ==
    LET proxy_command == expand_tokens(self, self.proxy_command[1])
        cmd == SplitWhitespace(proxy_command)
    IN [op |-> "spawn_proxy",
        cmd |-> IF cmd # <<>> THEN cmd[1] ELSE <<>>,
        args |-> IF Len(cmd) >= 1 THEN Tail(cmd) ELSE <<>>,
        answer |-> "pending"]

\* the command name and the arguments handed to Stream::proxy_command
ProxyCall(self) ==
    LET proxy_command == expand_tokens(self, self.proxy_command[1])
        cmd == SplitChar(proxy_command, " ")
    IN [op |-> "spawn_proxy",
        cmd |-> IF cmd # <<>> THEN cmd[1] ELSE <<>>,
        args |-> IF Len(cmd) >= 1 THEN Tail(cmd) ELSE <<>>,
        answer |-> "pending"]

\* stream, proxy_command set: the proxy process is spawned and awaited
StreamProxy ==
    /\ ret.kind = "Ok"
    /\ spc = "idle"
    /\ ret.profile[1].proxy_command # None
    /\ calls' = Append(calls, ProxyCall(ret.profile[1]))
    /\ spc' = "await_proxy"
    /\ UNCHANGED <<file, host, home, lines, pos, config, matches_current, ret,
                   sret, second>>

\* stream, no proxy_command: the address is resolved; an error of the
\* resolver or no candidate ends the call, otherwise the first address is
\* connected to and awaited
StreamDirect ==
    /\ ret.kind = "Ok"
    /\ spc = "idle"
    /\ ret.profile[1].proxy_command = None
    /\ \E r \in ResolveOutcomes :
          LET self == ret.profile[1]
              resolve == [op |-> "resolve", host_name |-> self.host_name,
                          port |-> self.port, answer |-> r]
          IN IF ~r.ok
             THEN /\ calls' = Append(calls, resolve)
                  /\ sret' = "Io"
                  /\ spc' = "done"
             ELSE IF r.addrs = <<>>
             THEN /\ calls' = Append(calls, resolve)
                  /\ sret' = "NotResolvable"
                  /\ spc' = "done"
             ELSE /\ calls' = calls \o <<resolve,
                                        [op |-> "open_direct",
                                         address |-> FirstAddress(r.addrs),
                                         answer |-> "pending"]>>
                  /\ sret' = sret
                  /\ spc' = "await_tcp"
    /\ UNCHANGED <<file, host, home, lines, pos, config, matches_current, ret,
                   second>>

\* what Stream::proxy_command and Stream::tcp_connect (mod proxy) can answer:
\* a stream or an I/O error
ProviderAnswers == {"stream", "io_error"}

\* the awaited provider answers; its error is passed on as Io
ProviderReturn ==
    /\ spc \in {"await_proxy", "await_tcp"}
    /\ \E answer \in ProviderAnswers :
          /\ calls' = [calls EXCEPT ![Len(calls)].answer = answer]
          /\ sret' = IF answer = "stream" THEN "Stream" ELSE "Io"
    /\ spc' = "done"
    /\ UNCHANGED <<file, host, home, lines, pos, config, matches_current, ret,
                   second>>

NextParse == ParseLine \/ ParseReturn

Next == ParseLine \/ ParseReturn \/ StreamProxy \/ StreamDirect \/ ProviderReturn

\* ------------------------------------------------------------------------
\* Inputs: config texts, aliases and home directories
\* ------------------------------------------------------------------------

RECURSIVE JoinLines(_)
\* the text whose lines are ls: a line feed between two lines
JoinLines(ls) ==
    IF ls = <<>> THEN <<>>
    ELSE IF Len(ls) = 1 THEN ls[1]
    ELSE ls[1] \o <<"\n">> \o JoinLines(Tail(ls))

\* the lines of a text as they were written, line endings other than the
\* line feed included
RawLines(text) == SplitChar(text, "\n")

\* every text of at most n lines drawn from pool
TextsOver(pool, n) ==
    {JoinLines(ls) : ls \in UNION {[1..k -> pool] : k \in 0..n}}

\* the state at the head of the loop with the flag starting out set, as if
\* the lines before the first Host line applied to every alias
InitWithGlobalSection(Texts, Aliases, Homes) ==
    /\ file \in Texts
    /\ host \in Aliases
    /\ home \in Homes
    /\ lines = Lines(file)
    /\ pos = 0
    /\ config = ConfigDefault(host)
    /\ matches_current = TRUE
    /\ ret = Running
    /\ spc = "idle"
    /\ calls = <<>>
    /\ sret = "none"
    /\ second = NoSecond

\* the state at the head of parse's loop, for a text, an alias and a home
\* directory drawn from the given sets
InitWith(Texts, Aliases, Homes) ==
    /\ file \in Texts
    /\ host \in Aliases
    /\ home \in Homes
    /\ lines = Lines(file)
    /\ pos = 0
    /\ config = ConfigDefault(host)
    /\ matches_current = FALSE
    /\ ret = Running
    /\ spc = "idle"
    /\ calls = <<>>
    /\ sret = "none"
    /\ second = NoSecond


\* ------------------------------------------------------------------------
\* Specification Spec: short texts of malformed, empty and edge-case lines,
\* with the home directory missing, present, or not valid UTF-8
\* ------------------------------------------------------------------------

MaxNoiseLines == 2

NoiseEmpty == <<>>
NoiseHostAll == <<"H", "o", "s", "t", " ", "*">>
NoiseHostBad == <<"H", "o", "s", "t", " ", "[">>
NoiseQuote ==
    <<"I", "d", "e", "n", "t", "i", "t", "y", "F", "i", "l", "e", " ", "'">>
NoiseQuotes ==
    <<"I", "d", "e", "n", "t", "i", "t", "y", "F", "i", "l", "e", " ", "'",
      "'">>
NoiseTilde ==
    <<"I", "d", "e", "n", "t", "i", "t", "y", "F", "i", "l", "e", " ", "~",
      "/">>
NoiseQuotedTilde ==
    <<"U", "s", "e", "r", "K", "n", "o", "w", "n", "H", "o", "s", "t", "s",
      "F", "i", "l", "e", " ", "'", "~", "/", "'">>
NoiseBareTilde ==
    <<"I", "d", "e", "n", "t", "i", "t", "y", "F", "i", "l", "e", " ", "~">>
NoiseOpenQuote ==
    <<"U", "s", "e", "r", "K", "n", "o", "w", "n", "H", "o", "s", "t", "s",
      "F", "i", "l", "e", " ", "'", "~">>
NoiseKnownHosts ==
    <<"U", "s", "e", "r", "K", "n", "o", "w", "n", "H", "o", "s", "t", "s",
      "F", "i", "l", "e", " ", "~", "/", "k">>
NoisePort == <<"P", "o", "r", "t", " ", "6", "5", "5", "3", "6">>
NoiseComment == <<"#", " ", "c">>
NoiseTabs == <<"\t", "U", "s", "e", "r", "\t">>
NoiseProxy ==
    <<"P", "r", "o", "x", "y", "C", "o", "m", "m", "a", "n", "d", " ", "n",
      "c">>
NoiseBinary == <<"=", ":", "^", "\r">>
NoiseKnownQuote ==
    <<"U", "s", "e", "r", "K", "n", "o", "w", "n", "H", "o", "s", "t", "s",
      "F", "i", "l", "e", " ", "'">>

NoisePool ==
    {NoiseEmpty, NoiseHostAll, NoiseHostBad, NoiseQuote,
     NoiseQuotes, NoiseTilde, NoiseQuotedTilde, NoiseBareTilde,
     NoiseOpenQuote, NoiseKnownHosts, NoisePort, NoiseComment,
     NoiseTabs, NoiseProxy, NoiseBinary, NoiseKnownQuote}

AliasWeb1 == <<"w", "e", "b", "1">>
AliasWebapp == <<"w", "e", "b", "a", "p", "p">>
AliasDb == <<"d", "b">>
AliasOther == <<"o", "t", "h", "e", "r">>

HomeBob == <<"/", "h", "o", "m", "e", "/", "b", "o", "b">>
HomeNotUtf8 == <<"/", "h", BadByte>>

AllHomes == {None, Some(HomeBob), Some(HomeNotUtf8)}

Init == InitWith(TextsOver(NoisePool, MaxNoiseLines), {AliasWeb1}, AllHomes)

Spec == Init /\ [][Next]_vars


\* C2: for every text and alias parse never panics (the quote-stripping
\* slice and the split after "~/" stay within bounds); while it runs there
\* is a next line to process or the end of the text to return at, it ends
\* with Ok(profile), Err(NoHome) or Err(Io), and with a home directory that
\* is available and representable as a string it ends with Ok.
C2_ParseNeverPanics ==
    /\ ret.kind \in {"Running", "Ok", "NoHome", "Io"}
    /\ (ret.kind = "Ok") = (ret.profile # None)
    /\ ret.kind = "Running" => pos <= Len(lines)
    /\ (home # None /\ PathToStr(home[1]) # None) => ret.kind \in {"Running", "Ok"}

\* C2 witness: parse returned Ok after the quotes of '~/' were stripped and
\* the empty remainder behind "~/" was joined onto the home directory
C2_Witness ==
    /\ ret.kind = "Ok"
    /\ home = Some(HomeBob)
    /\ \E i \in 1..Len(lines) : RawLines(file)[i] = NoiseQuotedTilde
    /\ ret.profile[1].user_known_hosts_file = Some(HomeBob \o <<"/">>)


\* ------------------------------------------------------------------------
\* Expected behaviour, written out line by line: the Host lines of the
\* texts and the aliases each is expected to match
\* ------------------------------------------------------------------------

HostAll == <<"H", "o", "s", "t", " ", "*">>
HostWebQ == <<"H", "o", "s", "t", " ", "w", "e", "b", "?">>
HostBadThenWeb1 == <<"H", "o", "s", "t", " ", "[", " ", "w", "e", "b", "1">>
HostWebQDb == <<"H", "o", "s", "t", " ", "w", "e", "b", "?", " ", "d", "b">>
HostBad == <<"H", "o", "s", "t", " ", "[">>
HostLowerWebapp ==
    <<"h", "o", "s", "t", " ", " ", "w", "e", "b", "a", "p", "p">>
HostStarP == <<"H", "O", "S", "T", " ", "w", "*", "p">>
HostClass == <<"H", "o", "s", "t", " ", "[", "d", "x", "]", "b", "\r">>
HostWeb1 == <<"H", "o", "s", "t", " ", "w", "e", "b", "1">>
HostDb == <<" ", " ", "H", "o", "s", "t", " ", "d", "b">>

HostTable ==
    {[line |-> HostAll, aliases |-> {AliasWeb1, AliasWebapp, AliasDb, AliasOther}],
     [line |-> HostWebQ, aliases |-> {AliasWeb1}],
     [line |-> HostBadThenWeb1, aliases |-> {AliasWeb1}],
     [line |-> HostWebQDb, aliases |-> {AliasWeb1, AliasDb}],
     [line |-> HostBad, aliases |-> {}],
     [line |-> HostLowerWebapp, aliases |-> {AliasWebapp}],
     [line |-> HostStarP, aliases |-> {AliasWebapp}],
     [line |-> HostClass, aliases |-> {AliasDb}],
     [line |-> HostWeb1, aliases |-> {AliasWeb1}],
     [line |-> HostDb, aliases |-> {AliasDb}]}

IsTableHostLine(line) == \E c \in HostTable : c.line = line

ExpectedHostMatch(line, alias) ==
    \E c \in HostTable : c.line = line /\ alias \in c.aliases

Max(S) == CHOOSE x \in S : \A y \in S : y <= x

\* the state expected after the first n lines of ls: MATCHING iff there is
\* a Host line among them and the last one is expected to match the alias
ExpectMatching(ls, n, alias) ==
    LET hs == {i \in 1..n : IsTableHostLine(ls[i])}
    IN hs # {} /\ ExpectedHostMatch(ls[Max(hs)], alias)

\* the lines among the first n of ls that belong to D and lie in a block
\* expected to match the alias
AppliedIndexes(ls, n, alias, D) ==
    {j \in 1..n : ls[j] \in D /\ ExpectMatching(ls, j - 1, alias)}

\* ------------------------------------------------------------------------
\* Specification SpecHost: Host lines of every kind, three aliases
\* ------------------------------------------------------------------------

MaxHostLines == 2

LineUserBob == <<"U", "s", "e", "r", " ", "b", "o", "b">>

HostPool ==
    {HostAll, HostWebQ, HostBadThenWeb1, HostWebQDb, HostBad, HostLowerWebapp,
     HostStarP, HostClass, LineUserBob}

InitHost ==
    InitWith(TextsOver(HostPool, MaxHostLines),
             {AliasWeb1, AliasWebapp, AliasDb}, {Some(HomeBob)})

SpecHost == InitHost /\ [][NextParse]_vars

\* C4: after a Host line is processed the block is MATCHING iff at least
\* one of its whitespace-separated patterns glob-matches the alias: "Host *"
\* matches every alias, "Host web?" matches web1 and not webapp, a pattern
\* that does not compile ("[") matches nothing, raises no error and does
\* not keep another pattern of the same line from matching.
C4_HostMatching ==
    /\ matches_current = ExpectMatching(RawLines(file), pos, host)
    /\ ret.kind \in {"Running", "Ok"}

\* C4 witness: a Host line whose first pattern does not compile and whose
\* second pattern matches the alias was processed, and the block matches
C4_Witness ==
    /\ pos >= 1
    /\ RawLines(file)[pos] = HostBadThenWeb1
    /\ host = AliasWeb1
    /\ matches_current


\* ------------------------------------------------------------------------
\* Specification SpecBlocks: for each key, texts of Host lines and of two
\* directives that set the key to different values
\* ------------------------------------------------------------------------

MaxBlockLines == 4

LineUserAlice == <<"U", "s", "e", "r", " ", "a", "l", "i", "c", "e">>
LineHostNameH1 == <<"H", "o", "s", "t", "N", "a", "m", "e", " ", "h", "1">>
LineHostNameH2 ==
    <<"h", "o", "s", "t", "n", "a", "m", "e", " ", " ", "h", "2">>
LinePort2022 == <<"P", "o", "r", "t", " ", "2", "0", "2", "2">>
LinePort8022 == <<" ", " ", "P", "o", "r", "t", " ", "8", "0", "2", "2">>
LineIdentityK1 ==
    <<"I", "d", "e", "n", "t", "i", "t", "y", "F", "i", "l", "e", " ", "/",
      "k", "1">>
LineIdentityK2 ==
    <<"I", "d", "e", "n", "t", "i", "t", "y", "F", "i", "l", "e", " ", "/",
      "k", "2">>
LineProxyCommandA ==
    <<"P", "r", "o", "x", "y", "C", "o", "m", "m", "a", "n", "d", " ", "n",
      "c", " ", "a">>
LineProxyCommandB ==
    <<"P", "r", "o", "x", "y", "C", "o", "m", "m", "a", "n", "d", " ", "n",
      "c", " ", "b">>
LineProxyJump1 ==
    <<"P", "r", "o", "x", "y", "J", "u", "m", "p", " ", "j", "1">>
LineProxyJump2 ==
    <<"P", "r", "o", "x", "y", "J", "u", "m", "p", " ", "j", "2">>
LineAgentYes ==
    <<"A", "d", "d", "K", "e", "y", "s", "T", "o", "A", "g", "e", "n", "t",
      " ", "y", "e", "s">>
LineAgentAsk ==
    <<"A", "d", "d", "K", "e", "y", "s", "T", "o", "A", "g", "e", "n", "t",
      " ", "a", "s", "k">>
LineKnownU1 ==
    <<"U", "s", "e", "r", "K", "n", "o", "w", "n", "H", "o", "s", "t", "s",
      "F", "i", "l", "e", " ", "/", "u", "1">>
LineKnownU2 ==
    <<"U", "s", "e", "r", "K", "n", "o", "w", "n", "H", "o", "s", "t", "s",
      "F", "i", "l", "e", " ", "/", "u", "2">>
LineStrictNo ==
    <<"S", "t", "r", "i", "c", "t", "H", "o", "s", "t", "K", "e", "y", "C",
      "h", "e", "c", "k", "i", "n", "g", " ", "n", "o">>
LineStrictYes ==
    <<"S", "t", "r", "i", "c", "t", "H", "o", "s", "t", "K", "e", "y", "C",
      "h", "e", "c", "k", "i", "n", "g", " ", "y", "e", "s">>

\* each directive line with the profile field it sets and the value expected
DirectiveTable ==
    {[line |-> LineUserAlice, field |-> "user",
      expect |-> <<"a", "l", "i", "c", "e">>],
     [line |-> LineUserBob, field |-> "user",
      expect |-> <<"b", "o", "b">>],
     [line |-> LineHostNameH1, field |-> "host_name",
      expect |-> <<"h", "1">>],
     [line |-> LineHostNameH2, field |-> "host_name",
      expect |-> <<"h", "2">>],
     [line |-> LinePort2022, field |-> "port",
      expect |-> 2022],
     [line |-> LinePort8022, field |-> "port",
      expect |-> 8022],
     [line |-> LineIdentityK1, field |-> "identity_file",
      expect |-> Some(<<"/", "k", "1">>)],
     [line |-> LineIdentityK2, field |-> "identity_file",
      expect |-> Some(<<"/", "k", "2">>)],
     [line |-> LineProxyCommandA, field |-> "proxy_command",
      expect |-> Some(<<"n", "c", " ", "a">>)],
     [line |-> LineProxyCommandB, field |-> "proxy_command",
      expect |-> Some(<<"n", "c", " ", "b">>)],
     [line |-> LineProxyJump1, field |-> "proxy_jump",
      expect |-> Some(<<"j", "1">>)],
     [line |-> LineProxyJump2, field |-> "proxy_jump",
      expect |-> Some(<<"j", "2">>)],
     [line |-> LineAgentYes, field |-> "add_keys_to_agent",
      expect |-> "Yes"],
     [line |-> LineAgentAsk, field |-> "add_keys_to_agent",
      expect |-> "Ask"],
     [line |-> LineKnownU1, field |-> "user_known_hosts_file",
      expect |-> Some(<<"/", "u", "1">>)],
     [line |-> LineKnownU2, field |-> "user_known_hosts_file",
      expect |-> Some(<<"/", "u", "2">>)],
     [line |-> LineStrictNo, field |-> "strict_host_key_checking",
      expect |-> FALSE],
     [line |-> LineStrictYes, field |-> "strict_host_key_checking",
      expect |-> TRUE]}

Fields ==
    {"user", "host_name", "port", "identity_file", "proxy_command", "proxy_jump",
     "add_keys_to_agent", "user_known_hosts_file", "strict_host_key_checking"}

DirectiveLines(f) == {c.line : c \in {d \in DirectiveTable : d.field = f}}

ExpectOf(line) == (CHOOSE c \in DirectiveTable : c.line = line).expect

\* the defaults a profile is seeded with, written out
ExpectedDefaults(alias) ==
    [user |-> CurrentUser,
     host_name |-> alias,
     port |-> 22,
     identity_file |-> None,
     proxy_command |-> None,
     proxy_jump |-> None,
     add_keys_to_agent |-> "No",
     user_known_hosts_file |-> None,
     strict_host_key_checking |-> TRUE]

BlockTexts ==
    UNION {TextsOver({HostAll, HostWeb1, HostDb} \cup DirectiveLines(f), MaxBlockLines) :
             f \in Fields}

InitBlocks == InitWith(BlockTexts, {AliasWeb1}, {Some(HomeBob)})

SpecBlocks == InitBlocks /\ [][NextParse]_vars

\* the value expected in field f after the first n lines of ls: that of
\* the last directive for f in a matching block, or the default
ExpectedField(ls, f, n) ==
    LET applied == AppliedIndexes(ls, n, host, DirectiveLines(f))
    IN IF applied = {} THEN ExpectedDefaults(host)[f]
       ELSE ExpectOf(ls[Max(applied)])

\* C1: last-match-wins.  When several matching Host blocks set the same key
\* to different valid values, the profile parse returns holds the value of
\* the directive that comes last in file order among the matching blocks;
\* an earlier value is never retained (and a block that does not match
\* sets nothing).
C1_LastMatchWins ==
    LET ls == RawLines(file)
    IN /\ ret.kind \in {"Running", "Ok"}
       /\ \A f \in Fields : config[f] = ExpectedField(ls, f, pos)
       /\ ret.kind = "Ok" => pos = Len(lines) /\ ret.profile = Some(config)

\* C1 witness: parse returned Ok for a text with two matching Host blocks,
\* each with a directive for the same key, the two values being different
C1_Witness ==
    /\ ret.kind = "Ok"
    /\ LET ls == RawLines(file)
       IN \E i, j, k, l \in 1..Len(lines) :
             /\ i < j /\ j < k /\ k < l
             /\ IsTableHostLine(ls[i]) /\ ExpectedHostMatch(ls[i], host)
             /\ IsTableHostLine(ls[k]) /\ ExpectedHostMatch(ls[k], host)
             /\ \E f \in Fields :
                   /\ ls[j] \in DirectiveLines(f)
                   /\ ls[l] \in DirectiveLines(f)
                   /\ ExpectOf(ls[j]) # ExpectOf(ls[l])
                   /\ ret.profile[1][f] = ExpectOf(ls[l])


\* ------------------------------------------------------------------------
\* Specification SpecNoMatch: Host lines and one directive for each key,
\* tilde paths among them, an alias that only "Host *" matches, the home
\* directory present or missing
\* ------------------------------------------------------------------------

MaxLines == 2

LineIdentityTilde ==
    <<"I", "d", "e", "n", "t", "i", "t", "y", "F", "i", "l", "e", " ", "~",
      "/", "k">>
LineKnownTilde ==
    <<"U", "s", "e", "r", "K", "n", "o", "w", "n", "H", "o", "s", "t", "s",
      "F", "i", "l", "e", " ", "~", "/", "k">>

NoMatchPool ==
    {HostWeb1, HostWebQDb, HostAll, LineUserAlice, LineHostNameH1, LinePort2022,
     LineIdentityTilde, LineProxyCommandA, LineProxyJump1, LineAgentYes,
     LineKnownTilde, LineStrictNo}

InitNoMatch ==
    InitWith(TextsOver(NoMatchPool, MaxLines), {AliasOther, AliasWeb1},
             {None, Some(HomeBob)})

SpecNoMatch == InitNoMatch /\ [][NextParse]_vars

\* no Host line of the text is expected to match the alias
NoHostLineMatches ==
    LET ls == RawLines(file)
    IN \A i \in 1..Len(ls) : IsTableHostLine(ls[i]) => ~ExpectedHostMatch(ls[i], host)

\* C3: if no Host line of the text has a pattern that matches the alias,
\* then whatever directives the text holds parse returns Ok with exactly the
\* seeded defaults; it returns no error, not even NoHome for a "~/" path in
\* a block that does not match while no home directory is available.
C3_NonMatchingAlias ==
    NoHostLineMatches =>
        /\ ret.kind \in {"Running", "Ok"}
        /\ config = ExpectedDefaults(host)
        /\ ret.kind = "Ok" => ret.profile = Some(ExpectedDefaults(host))

\* C3 witness: without a home directory, parse returned Ok for a text with
\* a tilde path inside a block that does not match the alias
C3_Witness ==
    /\ ret.kind = "Ok"
    /\ home = None
    /\ host = AliasOther
    /\ NoHostLineMatches
    /\ \E i \in 1..(Len(lines) - 1) :
          /\ RawLines(file)[i] = HostWeb1
          /\ RawLines(file)[i + 1] = LineIdentityTilde


\* ------------------------------------------------------------------------
\* Specification SpecPort: Port directives with values in and out of range
\* ------------------------------------------------------------------------

MaxPortLines == 3

LinePortText ==
    <<"P", "o", "r", "t", " ", "n", "o", "t", "a", "n", "u", "m", "b", "e",
      "r">>
LinePortNegative == <<"P", "o", "r", "t", " ", "-", "1">>
LinePort65536 == <<"P", "o", "r", "t", " ", "6", "5", "5", "3", "6">>
LinePort65535 == <<"P", "o", "r", "t", " ", "6", "5", "5", "3", "5">>
LinePort0 == <<"P", "o", "r", "t", " ", "0">>
LinePortTrailing == <<"P", "o", "r", "t", " ", "2", "2", "x">>
LinePortPadded == <<"P", "o", "r", "t", " ", " ", "0", "8", "0">>
LinePortPlus == <<"p", "o", "r", "t", " ", "+", "4", "4", "3">>
LinePortLong == <<"P", "o", "r", "t", " ", "6", "5", "5", "3", "5", "0">>

\* each Port line with the port its value denotes, -1 when the value is no
\* decimal integer in 0..65535
PortTable ==
    {[line |-> LinePort2022, expect |-> 2022],
     [line |-> LinePortText, expect |-> -1],
     [line |-> LinePortNegative, expect |-> -1],
     [line |-> LinePort65536, expect |-> -1],
     [line |-> LinePort65535, expect |-> 65535],
     [line |-> LinePort0, expect |-> 0],
     [line |-> LinePortTrailing, expect |-> -1],
     [line |-> LinePortPadded, expect |-> 80],
     [line |-> LinePortPlus, expect |-> 443],
     [line |-> LinePortLong, expect |-> -1]}

PortLines == {c.line : c \in PortTable}
ValidPortLines == {c.line : c \in {d \in PortTable : d.expect >= 0}}
PortOf(line) == (CHOOSE c \in PortTable : c.line = line).expect

InitPort ==
    InitWith(TextsOver({HostAll, HostDb} \cup PortLines, MaxPortLines),
             {AliasWeb1}, {Some(HomeBob)})

SpecPort == InitPort /\ [][NextParse]_vars

\* C6: in a matching block a Port value that is not a decimal integer in
\* 0..65535 (text, negative, 65536 or larger, trailing text) leaves the port
\* at its prior value and is no error, a value in range replaces it: the
\* port is always within 0..65535 and is the last valid Port value seen in
\* a matching block, 22 if there was none.
C6_PortDirective ==
    LET applied == AppliedIndexes(RawLines(file), pos, host, ValidPortLines)
    IN /\ ret.kind \in {"Running", "Ok"}
       /\ config.port \in 0..65535
       /\ config.port = IF applied = {} THEN 22
                        ELSE PortOf(RawLines(file)[Max(applied)])
       /\ ret.kind = "Ok" => ret.profile[1].port = config.port

\* C6 witness: in a matching block a valid Port line was followed by the
\* line "Port 65536", and parse returned Ok with the earlier port
C6_Witness ==
    /\ ret.kind = "Ok"
    /\ ret.profile[1].port = 2022
    /\ LET ls == RawLines(file)
       IN \E i, j \in 1..Len(lines) :
             /\ i < j
             /\ ls[i] = LinePort2022
             /\ ls[j] = LinePort65536
             /\ j \in AppliedIndexes(ls, Len(lines), host, PortLines)

\* ------------------------------------------------------------------------
\* Specification SpecPolicy: AddKeysToAgent and StrictHostKeyChecking
\* directives in several casings, with values the parser does not know
\* ------------------------------------------------------------------------

MaxPolicyLines == 3

LineAgentConfirm ==
    <<"a", "d", "d", "k", "e", "y", "s", "t", "o", "a", "g", "e", "n", "t",
      " ", "C", "O", "N", "F", "I", "R", "M">>
LineAgentAskMixed ==
    <<"A", "d", "d", "K", "e", "y", "s", "T", "o", "A", "g", "e", "n", "t",
      " ", "A", "s", "k">>
LineAgentBogus ==
    <<"A", "d", "d", "K", "e", "y", "s", "T", "o", "A", "g", "e", "n", "t",
      " ", "b", "o", "g", "u", "s">>
LineStrictNoMixed ==
    <<"s", "t", "r", "i", "c", "t", "h", "o", "s", "t", "k", "e", "y", "c",
      "h", "e", "c", "k", "i", "n", "g", " ", "N", "o">>
LineStrictOff ==
    <<"S", "t", "r", "i", "c", "t", "H", "o", "s", "t", "K", "e", "y", "C",
      "h", "e", "c", "k", "i", "n", "g", " ", "o", "f", "f">>

\* each AddKeysToAgent line with the setting expected for its value
AgentTable ==
    {[line |-> LineAgentYes, expect |-> "Yes"],
     [line |-> LineAgentConfirm, expect |-> "Confirm"],
     [line |-> LineAgentAskMixed, expect |-> "Ask"],
     [line |-> LineAgentBogus, expect |-> "No"]}

\* each StrictHostKeyChecking line with the flag expected for its value
StrictTable ==
    {[line |-> LineStrictNo, expect |-> FALSE],
     [line |-> LineStrictNoMixed, expect |-> FALSE],
     [line |-> LineStrictYes, expect |-> TRUE],
     [line |-> LineStrictOff, expect |-> TRUE]}

AgentLines == {c.line : c \in AgentTable}
AgentOf(line) == (CHOOSE c \in AgentTable : c.line = line).expect
StrictLines == {c.line : c \in StrictTable}
StrictOf(line) == (CHOOSE c \in StrictTable : c.line = line).expect

InitPolicy ==
    InitWith(TextsOver({HostAll, HostDb} \cup AgentLines \cup StrictLines,
                       MaxPolicyLines),
             {AliasWeb1}, {Some(HomeBob)})

SpecPolicy == InitPolicy /\ [][NextParse]_vars

\* C8: in a matching block AddKeysToAgent with the value yes, confirm or
\* ask, in any casing, gives Yes, Confirm or Ask, and every other value
\* gives No, overwriting what an earlier directive set; without such a
\* directive the field is No.
C8_AddKeysToAgent ==
    LET applied == AppliedIndexes(RawLines(file), pos, host, AgentLines)
    IN /\ ret.kind \in {"Running", "Ok"}
       /\ config.add_keys_to_agent =
             IF applied = {} THEN "No" ELSE AgentOf(RawLines(file)[Max(applied)])
       /\ ret.kind = "Ok" =>
             ret.profile[1].add_keys_to_agent = config.add_keys_to_agent

\* C8 witness: "addkeystoagent CONFIRM" and then "AddKeysToAgent bogus" were
\* applied, the first gave Confirm and parse returned Ok with No
C8_Witness ==
    /\ ret.kind = "Ok"
    /\ ret.profile[1].add_keys_to_agent = "No"
    /\ LET ls == RawLines(file)
       IN \E i, j \in 1..Len(lines) :
             /\ i < j
             /\ ls[i] = LineAgentConfirm
             /\ ls[j] = LineAgentBogus
             /\ {i, j} \subseteq AppliedIndexes(ls, Len(lines), host, AgentLines)

\* C9: strict_host_key_checking is false iff the last StrictHostKeyChecking
\* directive inside a matching block has the value no, in any casing; it is
\* true without such a directive, and a later matching directive with any
\* other value forces it back to true.
C9_StrictHostKeyChecking ==
    LET applied == AppliedIndexes(RawLines(file), pos, host, StrictLines)
    IN /\ ret.kind \in {"Running", "Ok"}
       /\ config.strict_host_key_checking =
             IF applied = {} THEN TRUE ELSE StrictOf(RawLines(file)[Max(applied)])
       /\ ret.kind = "Ok" =>
             ret.profile[1].strict_host_key_checking = config.strict_host_key_checking

\* C9 witness: "StrictHostKeyChecking no" and then a value the parser does
\* not know were applied, and parse returned Ok with the flag back at true
C9_Witness ==
    /\ ret.kind = "Ok"
    /\ ret.profile[1].strict_host_key_checking
    /\ LET ls == RawLines(file)
       IN \E i, j \in 1..Len(lines) :
             /\ i < j
             /\ ls[i] = LineStrictNo
             /\ ls[j] = LineStrictOff
             /\ {i, j} \subseteq AppliedIndexes(ls, Len(lines), host, StrictLines)


\* ------------------------------------------------------------------------
\* Specification SpecPaths: IdentityFile and UserKnownHostsFile directives
\* with the same quoted, unquoted, tilde-prefixed and half-quoted values,
\* with the home directory missing, present, or not valid UTF-8
\* ------------------------------------------------------------------------

MaxPathLines == 2

ValueQuotedEd25519 ==
    <<"'", "~", "/", ".", "s", "s", "h", "/", "i", "d", "_", "e", "d", "2",
      "5", "5", "1", "9", "'">>
ValueTildeK == <<"~", "/", "k">>
ValueQuotedK == <<"'", "k", "'">>
ValueOneQuote == <<"'">>
ValueOpenQuoteTilde == <<"'", "~", "/">>
ValueTildeAbsolute == <<"~", "/", "/", "e">>
ValueTwoQuotes == <<"'", "'">>

LineIdentityQuotedEd25519 ==
    <<"I", "d", "e", "n", "t", "i", "t", "y", "F", "i", "l", "e", " ", "'",
      "~", "/", ".", "s", "s", "h", "/", "i", "d", "_", "e", "d", "2", "5",
      "5", "1", "9", "'">>
LineKnownQuotedEd25519 ==
    <<"U", "s", "e", "r", "K", "n", "o", "w", "n", "H", "o", "s", "t", "s",
      "F", "i", "l", "e", " ", "'", "~", "/", ".", "s", "s", "h", "/", "i",
      "d", "_", "e", "d", "2", "5", "5", "1", "9", "'">>
LineIdentityQuotedK ==
    <<"I", "d", "e", "n", "t", "i", "t", "y", "F", "i", "l", "e", " ", "'",
      "k", "'">>
LineKnownQuotedK ==
    <<"u", "s", "e", "r", "k", "n", "o", "w", "n", "h", "o", "s", "t", "s",
      "f", "i", "l", "e", " ", " ", "'", "k", "'">>
LineIdentityOneQuote ==
    <<"I", "d", "e", "n", "t", "i", "t", "y", "F", "i", "l", "e", " ", "'">>
LineKnownOneQuote ==
    <<"U", "s", "e", "r", "K", "n", "o", "w", "n", "H", "o", "s", "t", "s",
      "F", "i", "l", "e", " ", "'">>
LineIdentityOpenQuoteTilde ==
    <<"I", "d", "e", "n", "t", "i", "t", "y", "F", "i", "l", "e", " ", "'",
      "~", "/">>
LineKnownOpenQuoteTilde ==
    <<"U", "s", "e", "r", "K", "n", "o", "w", "n", "H", "o", "s", "t", "s",
      "F", "i", "l", "e", " ", "'", "~", "/">>
LineIdentityTildeAbsolute ==
    <<"I", "d", "e", "n", "t", "i", "t", "y", "F", "i", "l", "e", " ", "~",
      "/", "/", "e">>
LineKnownTildeAbsolute ==
    <<"U", "s", "e", "r", "K", "n", "o", "w", "n", "H", "o", "s", "t", "s",
      "F", "i", "l", "e", " ", "~", "/", "/", "e">>
LineIdentityTwoQuotes ==
    <<"I", "d", "e", "n", "t", "i", "t", "y", "F", "i", "l", "e", " ", "'",
      "'">>
LineKnownTwoQuotes ==
    <<"U", "s", "e", "r", "K", "n", "o", "w", "n", "H", "o", "s", "t", "s",
      "F", "i", "l", "e", " ", "'", "'">>

\* each path directive line with the field it sets and its value as written
PathTable ==
    {[line |-> LineIdentityQuotedEd25519, field |-> "identity_file", value |-> ValueQuotedEd25519],
     [line |-> LineKnownQuotedEd25519, field |-> "user_known_hosts_file", value |-> ValueQuotedEd25519],
     [line |-> LineIdentityTilde, field |-> "identity_file", value |-> ValueTildeK],
     [line |-> LineKnownTilde, field |-> "user_known_hosts_file", value |-> ValueTildeK],
     [line |-> LineIdentityQuotedK, field |-> "identity_file", value |-> ValueQuotedK],
     [line |-> LineKnownQuotedK, field |-> "user_known_hosts_file", value |-> ValueQuotedK],
     [line |-> LineIdentityOneQuote, field |-> "identity_file", value |-> ValueOneQuote],
     [line |-> LineKnownOneQuote, field |-> "user_known_hosts_file", value |-> ValueOneQuote],
     [line |-> LineIdentityOpenQuoteTilde, field |-> "identity_file", value |-> ValueOpenQuoteTilde],
     [line |-> LineKnownOpenQuoteTilde, field |-> "user_known_hosts_file", value |-> ValueOpenQuoteTilde],
     [line |-> LineIdentityTildeAbsolute, field |-> "identity_file", value |-> ValueTildeAbsolute],
     [line |-> LineKnownTildeAbsolute, field |-> "user_known_hosts_file", value |-> ValueTildeAbsolute],
     [line |-> LineIdentityTwoQuotes, field |-> "identity_file", value |-> ValueTwoQuotes],
     [line |-> LineKnownTwoQuotes, field |-> "user_known_hosts_file", value |-> ValueTwoQuotes]}

PathLines(f) == {c.line : c \in {d \in PathTable : d.field = f}}
PathValueOf(line) == (CHOOSE c \in PathTable : c.line = line).value

InitPaths ==
    InitWith(TextsOver({HostAll} \cup PathLines("identity_file")
                                 \cup PathLines("user_known_hosts_file"),
                       MaxPathLines),
             {AliasWeb1}, AllHomes)

SpecPaths == InitPaths /\ [][NextParse]_vars

\* the value without one pair of surrounding single quotes, which are
\* stripped only from a value longer than one character
Unquoted(v) ==
    IF Len(v) > 1 /\ v[1] = "'" /\ v[Len(v)] = "'"
    THEN SubSeq(v, 2, Len(v) - 1)
    ELSE v

HasTilde(v) == Len(v) >= 2 /\ v[1] = "~" /\ v[2] = "/"

\* what a path directive with value v is expected to do: store the unquoted
\* value, or the remainder behind "~/" joined onto the home directory, or
\* end parse with NoHome or Io
ExpectedPathOutcome(v, homedir) ==
    LET u == Unquoted(v)
    IN IF ~HasTilde(u) THEN [kind |-> "Set", val |-> u]
       ELSE IF homedir = None THEN [kind |-> "NoHome", val |-> <<>>]
       ELSE LET joined == PathPush(homedir[1], SubSeq(u, 3, Len(u)))
            IN IF PathToStr(joined) = None THEN [kind |-> "Io", val |-> <<>>]
               ELSE [kind |-> "Set", val |-> joined]

\* the value expected in path field f after the first n lines of ls
ExpectedPathField(ls, f, n) ==
    LET applied == AppliedIndexes(ls, n, host, PathLines(f))
    IN IF applied = {} THEN None
       ELSE Some(ExpectedPathOutcome(PathValueOf(ls[Max(applied)]), home).val)

PathFields == {"identity_file", "user_known_hosts_file"}

BobEd25519 ==
    <<"/", "h", "o", "m", "e", "/", "b", "o", "b", "/", ".", "s", "s", "h",
      "/", "i", "d", "_", "e", "d", "2", "5", "5", "1", "9">>

\* C7: IdentityFile and UserKnownHostsFile handle quotes and the tilde the
\* same way: in a matching block one pair of surrounding single quotes is
\* stripped first (only from a value longer than one character that starts
\* and ends with a quote), then a result starting with "~/" has its
\* remainder joined onto the home directory and any other result is stored
\* as it is; "IdentityFile '~/.ssh/id_ed25519'" with home /home/bob gives
\* /home/bob/.ssh/id_ed25519, and the same value gives the same stored
\* string or the same error under either directive.
C7_QuoteTilde ==
    LET ls == RawLines(file)
        failed == ret.kind \notin {"Running", "Ok"}
        done == IF failed THEN pos - 1 ELSE pos
    IN /\ \A f \in PathFields : config[f] = ExpectedPathField(ls, f, done)
       /\ ret.kind = "Ok" => ret.profile = Some(config)
       /\ failed =>
             /\ \E f \in PathFields :
                   pos \in AppliedIndexes(ls, pos, host, PathLines(f))
             /\ ret.kind = ExpectedPathOutcome(PathValueOf(ls[pos]), home).kind
       /\ \A f \in PathFields :
             (/\ home = Some(HomeBob)
              /\ pos >= 2
              /\ ls[pos - 1] = HostAll
              /\ ls[pos] \in PathLines(f)
              /\ PathValueOf(ls[pos]) = ValueQuotedEd25519)
             => config[f] = Some(BobEd25519)

\* C7 witness: with home /home/bob, "Host *" and then the UserKnownHostsFile
\* directive with the quoted value '~/.ssh/id_ed25519' were processed, and
\* parse returned Ok with /home/bob/.ssh/id_ed25519 stored
C7_Witness ==
    /\ ret.kind = "Ok"
    /\ home = Some(HomeBob)
    /\ RawLines(file) = <<HostAll, LineKnownQuotedEd25519>>
    /\ ret.profile[1].user_known_hosts_file = Some(BobEd25519)


\* ------------------------------------------------------------------------
\* Specification SpecStream: a matching block that sets up a profile and
\* then a ProxyCommand whose value is any template over the token
\* characters up to a given length, or no ProxyCommand at all; parse and
\* then stream establishment
\* ------------------------------------------------------------------------

MaxTemplateLen == 3

TokenAlphabet == {"%", "u", "h", "H", "p", "a"}

LineUserPercentH == <<"U", "s", "e", "r", " ", "%", "h">>
LineUserPercent == <<"U", "s", "e", "r", " ", "%">>
LineHostNameExample ==
    <<"H", "o", "s", "t", "N", "a", "m", "e", " ", "x", ".", "e", "x", "a",
      "m", "p", "l", "e">>
LinePort2222 == <<"P", "o", "r", "t", " ", "2", "2", "2", "2">>
TemplateUserHostPort == <<"%", "u", "@", "%", "h", ":", "%", "p">>
TemplateHundred == <<"1", "0", "0", "%", "%">>
TemplateNetcat == <<"n", "c", " ", " ", "%", "h", " ", "%", "p">>
TemplatePercentPercentH == <<"%", "%", "h">>
KeyProxyCommand ==
    <<"P", "r", "o", "x", "y", "C", "o", "m", "m", "a", "n", "d", " ">>
XExample == <<"x", ".", "e", "x", "a", "m", "p", "l", "e">>
BobAtExample ==
    <<"b", "o", "b", "@", "x", ".", "e", "x", "a", "m", "p", "l", "e", ":",
      "2", "2", "2", "2">>
HundredPercent == <<"1", "0", "0", "%">>

Templates ==
    UNION {[1..k -> TokenAlphabet] : k \in 1..MaxTemplateLen}
    \cup {TemplateUserHostPort, TemplateHundred, TemplateNetcat}

\* the directives in front of the ProxyCommand line
ProfileBlocks ==
    {<<HostAll>>,
     <<HostAll, LineUserBob, LineHostNameExample, LinePort2222>>,
     <<HostAll, LineUserPercentH, LineHostNameExample>>,
     <<HostAll, LineUserPercent>>}

StreamTexts ==
    {JoinLines(b) : b \in ProfileBlocks}
    \cup {JoinLines(Append(b, KeyProxyCommand \o t)) : b \in ProfileBlocks, t \in Templates}

InitStream == InitWith(StreamTexts, {AliasWeb1}, {Some(HomeBob)})

SpecStream == InitStream /\ [][Next]_vars

\* position of the first occurrence of from in s, 0 if there is none
FirstOccurrence(s, from) ==
    LET at == {i \in 1..(Len(s) - Len(from) + 1) :
                 SubSeq(s, i, i + Len(from) - 1) = from}
    IN IF at = {} THEN 0 ELSE CHOOSE i \in at : \A j \in at : i <= j

RECURSIVE ReplaceAll(_, _, _)
\* s with every occurrence of from, taken from the left and not
\* overlapping, replaced by to
ReplaceAll(s, from, to) ==
    LET i == FirstOccurrence(s, from)
    IN IF i = 0 THEN s
       ELSE SubSeq(s, 1, i - 1) \o to
            \o ReplaceAll(SubSeq(s, i + Len(from), Len(s)), from, to)

RECURSIVE DecimalOf(_)
DecimalOf(n) ==
    IF n < 10 THEN <<Digits[n + 1]>>
    ELSE Append(DecimalOf(n \div 10), Digits[(n % 10) + 1])

\* the five passes in their order, each on the result of the one before
FivePasses(template, profile) ==
    LET afterU == ReplaceAll(template, <<"%", "u">>, profile.user)
        afterh == ReplaceAll(afterU, <<"%", "h">>, profile.host_name)
        afterH == ReplaceAll(afterh, <<"%", "H">>, profile.host_name)
        afterP == ReplaceAll(afterH, <<"%", "p">>, DecimalOf(profile.port))
    IN ReplaceAll(afterP, <<"%", "%">>, <<"%">>)

RECURSIVE JoinWith(_, _)
JoinWith(pieces, sep) ==
    IF pieces = <<>> THEN <<>>
    ELSE IF Len(pieces) = 1 THEN pieces[1]
    ELSE pieces[1] \o sep \o JoinWith(Tail(pieces), sep)

\* the expanded proxy command as it reached the provider: the command name
\* and the arguments, put together again
SpawnedCommand == JoinWith(<<calls[1].cmd>> \o calls[1].args, <<" ">>)

ProxySpawned ==
    /\ spc # "idle"
    /\ ret.profile[1].proxy_command # None

\* C5 as stated: the expansion is the result of the five passes, and "%%"
\* gives a literal "%" at every occurrence of "%%" in the template, the
\* text before and the text behind the occurrence being expanded on their
\* own.
C5_PercentAtEveryOccurrence ==
    ProxySpawned =>
        LET self == ret.profile[1]
            t == self.proxy_command[1]
        IN /\ SpawnedCommand = FivePasses(t, self)
           /\ \A i \in 1..(Len(t) - 1) :
                 (t[i] = "%" /\ t[i + 1] = "%") =>
                     SpawnedCommand =
                         FivePasses(SubSeq(t, 1, i - 1), self) \o <<"%">>
                         \o FivePasses(SubSeq(t, i + 2, Len(t)), self)

\* C5, amended: for every template and profile the expansion is the result
\* of the five replace-all passes in the order %u, %h, %H, %p, %%, each on
\* the output of the one before: "%u@%h:%p" with user bob, host_name
\* x.example and port 2222 gives "bob@x.example:2222", "100%%" gives "100%",
\* a user value containing "%h" is substituted again by the %h pass, and
\* "%%" gives "%" only where the fifth pass finds it in the output of the
\* fourth: in "%%h" the %h pass takes the second "%", and the result is "%"
\* followed by host_name.
C5_FivePasses ==
    ProxySpawned =>
        LET self == ret.profile[1]
            t == self.proxy_command[1]
        IN /\ SpawnedCommand = FivePasses(t, self)
           /\ (/\ t = TemplateUserHostPort
               /\ self.user = <<"b", "o", "b">>
               /\ self.host_name = XExample
               /\ self.port = 2222) => SpawnedCommand = BobAtExample
           /\ t = TemplateHundred => SpawnedCommand = HundredPercent
           /\ (t = <<"%", "u">> /\ self.user = <<"%", "h">>)
                 => SpawnedCommand = self.host_name
           /\ t = TemplatePercentPercentH
                 => SpawnedCommand = <<"%">> \o self.host_name

\* C5 witness: the template "%%h" was expanded for the profile with
\* host_name x.example and the proxy command was spawned
C5_Witness ==
    /\ ProxySpawned
    /\ ret.profile[1].proxy_command = Some(TemplatePercentPercentH)
    /\ ret.profile[1].host_name = XExample
    /\ SpawnedCommand = <<"%">> \o XExample

\* C10: stream establishment calls at most one stream provider, once, and
\* never again: with proxy_command set it calls spawn_proxy and nothing
\* else; otherwise it resolves (host_name, port), returns Io when the
\* resolver fails and NotResolvable when it answers without a candidate,
\* in both cases without calling open_direct, and else calls open_direct
\* once with the first resolved address; the provider's error comes back as
\* Io, and the profile is the one parse returned in every branch.
C10_StreamEstablishment ==
    /\ ret.kind # "Ok" => spc = "idle"
    /\ spc = "idle" => calls = <<>> /\ sret = "none"
    /\ spc # "idle" =>
          LET self == ret.profile[1]
          IN /\ ret.profile = Some(config)
             /\ IF self.proxy_command # None
                THEN /\ Len(calls) = 1
                     /\ calls[1].op = "spawn_proxy"
                     /\ spc \in {"await_proxy", "done"}
                ELSE /\ Len(calls) >= 1
                     /\ calls[1].op = "resolve"
                     /\ calls[1].host_name = self.host_name
                     /\ calls[1].port = self.port
                     /\ ~calls[1].answer.ok =>
                           Len(calls) = 1 /\ spc = "done" /\ sret = "Io"
                     /\ (calls[1].answer.ok /\ calls[1].answer.addrs = <<>>) =>
                           Len(calls) = 1 /\ spc = "done" /\ sret = "NotResolvable"
                     /\ (calls[1].answer.ok /\ calls[1].answer.addrs # <<>>) =>
                           /\ Len(calls) = 2
                           /\ calls[2].op = "open_direct"
                           /\ calls[2].address = calls[1].answer.addrs[1]
                           /\ spc \in {"await_tcp", "done"}
             /\ spc \in {"await_proxy", "await_tcp"} =>
                   sret = "none" /\ calls[Len(calls)].answer = "pending"
             /\ (spc = "done" /\ calls[Len(calls)].op # "resolve") =>
                   sret = IF calls[Len(calls)].answer = "stream" THEN "Stream"
                          ELSE "Io"

\* C10 witness: without a proxy command the resolver answered with two
\* addresses, open_direct was called with the first, failed, and the call
\* returned Io
C10_Witness ==
    /\ spc = "done"
    /\ sret = "Io"
    /\ Len(calls) = 2
    /\ Len(calls[1].answer.addrs) = 2
    /\ calls[2].op = "open_direct"
    /\ calls[2].answer = "io_error"


\* ------------------------------------------------------------------------
\* Specification SpecDeferred: a ProxyCommand line with User, HostName and
\* Port lines before and after it, then the stream
\* ------------------------------------------------------------------------

MaxDeferredLines == 4

LineProxyUserHostPort ==
    <<"P", "r", "o", "x", "y", "C", "o", "m", "m", "a", "n", "d", " ", "%",
      "u", "@", "%", "h", ":", "%", "p">>
LineProxyPadded ==
    <<"p", "r", "o", "x", "y", "c", "o", "m", "m", "a", "n", "d", " ", " ",
      " ", "%", "%", "h", " ", " ", "%", "p", " ">>
ValuePercentHPort == <<"%", "%", "h", " ", " ", "%", "p">>

\* the ProxyCommand lines of SpecDeferred and the value each one stores
ProxyTable ==
    {[line |-> LineProxyUserHostPort, stored |-> TemplateUserHostPort],
     [line |-> LineProxyPadded, stored |-> ValuePercentHPort]}

ProxyLines == {c.line : c \in ProxyTable}

StoredOf(line) == (CHOOSE c \in ProxyTable : c.line = line).stored

DeferredPool ==
    {HostAll, LineUserBob, LineHostNameExample, LinePort2222,
     LineProxyUserHostPort, LineProxyPadded}

InitDeferred ==
    InitWith(TextsOver(DeferredPool, MaxDeferredLines), {AliasWeb1},
             {Some(HomeBob)})

SpecDeferred == InitDeferred /\ [][Next]_vars

\* the value of a field of SpecDeferred after the whole text, from the
\* User, HostName and Port lines of the matching blocks, wherever they
\* stand relative to the ProxyCommand line
FinalOf(ls, line, set, default) ==
    IF AppliedIndexes(ls, Len(ls), host, {line}) = {} THEN default ELSE set

BobAtWeb1 ==
    <<"b", "o", "b", "@", "w", "e", "b", "1", ":", "2", "2", "2", "2">>

\* C11: deferred expansion of ProxyCommand.  While parse runs and when it
\* has returned, proxy_command is the trimmed value of the last applied
\* ProxyCommand line, verbatim, with its %u, %h, %H, %p and %% still in it,
\* and nothing has been spawned; the expansion happens in stream only, on
\* the final profile, so the User, HostName and Port lines that come after
\* the ProxyCommand line determine what the tokens expand to.
C11_DeferredExpansion ==
    LET ls == RawLines(file)
        applied == AppliedIndexes(ls, pos, host, ProxyLines)
        final == [user |-> FinalOf(ls, LineUserBob, <<"b", "o", "b">>,
                                   CurrentUser),
                  host_name |-> FinalOf(ls, LineHostNameExample, XExample,
                                        host),
                  port |-> FinalOf(ls, LinePort2222, 2222, 22)]
    IN /\ config.proxy_command =
              IF applied = {} THEN None
              ELSE Some(StoredOf(ls[Max(applied)]))
       /\ ret.kind = "Ok" => ret.profile[1].proxy_command = config.proxy_command
       /\ spc = "idle" => calls = <<>>
       /\ ProxySpawned =>
              /\ Len(calls) = 1
              /\ SpawnedCommand = FivePasses(config.proxy_command[1], final)
              /\ (/\ config.proxy_command[1] = TemplateUserHostPort
                  /\ final.user = <<"b", "o", "b">>
                  /\ final.host_name = host
                  /\ final.port = 2222)
                 => SpawnedCommand = BobAtWeb1

\* a ProxyCommand line with a User and a Port line behind it: the command
\* was spawned with the values of the two later lines
C11_Witness ==
    /\ RawLines(file) =
           <<HostAll, LineProxyUserHostPort, LineUserBob, LinePort2222>>
    /\ ProxySpawned
    /\ ret.profile[1].proxy_command = Some(TemplateUserHostPort)
    /\ SpawnedCommand = BobAtWeb1


\* ------------------------------------------------------------------------
\* Specification SpecTwo: two calls of parse under way at once, their lines
\* taken in any order, without a home directory
\* ------------------------------------------------------------------------

MaxTwoLines == 2

TwoPool == {HostDb, LineUserBob, LineIdentityTilde}

InitTwo ==
    /\ file \in TextsOver(TwoPool, MaxTwoLines)
    /\ host \in {AliasWeb1, AliasDb}
    /\ home = None
    /\ lines = Lines(file)
    /\ pos = 0
    /\ config = ConfigDefault(host)
    /\ matches_current = FALSE
    /\ ret = Running
    /\ spc = "idle"
    /\ calls = <<>>
    /\ sret = "none"
    /\ \E text \in TextsOver(TwoPool, MaxTwoLines) :
           second = [file |-> text, host |-> AliasDb, lines |-> Lines(text),
                     pos |-> 0, config |-> ConfigDefault(AliasDb),
                     matches_current |-> FALSE, ret |-> Running]

SpecTwo == InitTwo /\ [][NextTwo]_vars

\* C12: two calls of parse share no mutable state.  With the lines of the
\* two calls processed in any order, on the same or on different texts and
\* aliases, each call returns what it returns when it runs alone: the same
\* profile, or the same error.
C12_IndependentCalls ==
    /\ ret.kind # "Running" => ret = ParseAlone(file, host, home)
    /\ second.ret.kind # "Running" =>
           second.ret = ParseAlone(second.file, second.host, home)

\* both calls have returned on the same text, the first for an alias that
\* matches no block and the second for one that does, the second before
\* the first
C12_Witness ==
    /\ RawLines(file) = <<HostDb, LineUserBob>>
    /\ second.file = file
    /\ host = AliasWeb1
    /\ pos = 1
    /\ ret.kind = "Running"
    /\ second.ret.kind = "Ok"
    /\ second.ret.profile[1].user = <<"b", "o", "b">>
    /\ config.user = CurrentUser


\* ------------------------------------------------------------------------
\* Specification SpecPersist: Host lines with and without a pattern, and
\* directives between them
\* ------------------------------------------------------------------------

MaxPersistLines == 4

LineHostBare == <<"H", "o", "s", "t">>
LineHostBarePadded == <<" ", " ", "H", "o", "s", "t", " ", " ">>

PersistPool ==
    {HostAll, HostDb, LineHostBare, LineHostBarePadded, LineUserBob,
     LinePort2022}

InitPersist ==
    InitWith(TextsOver(PersistPool, MaxPersistLines), {AliasWeb1},
             {Some(HomeBob)})

SpecPersist == InitPersist /\ [][NextParse]_vars

\* C13: block persistence.  In every iteration of the loop: the flag
\* changes only on a Host line with a pattern, which sets it to whether one
\* of its patterns matches the alias (so a Host line that does not match
\* clears a flag that was set), and it is constant over every other line;
\* the profile changes only on a line at which the flag is set; a Host line
\* changes no field of the profile.
C13_BlockPersistence ==
    [][pos' = pos + 1 =>
         LET line == RawLines(file)[pos']
         IN /\ matches_current' # matches_current => IsTableHostLine(line)
            /\ IsTableHostLine(line) =>
                   /\ matches_current' = ExpectedHostMatch(line, host)
                   /\ config' = config
            /\ config' # config => matches_current /\ matches_current'
            /\ ~matches_current' => config' = config]_vars

\* a matching block set the user, then a Host line that does not match
\* came, and the Port line behind it was not applied
C13_Witness ==
    /\ RawLines(file) = <<HostAll, LineUserBob, HostDb, LinePort2022>>
    /\ pos = 4
    /\ ~matches_current
    /\ config.user = <<"b", "o", "b">>
    /\ config.port = 22


\* ------------------------------------------------------------------------
\* Specification SpecHostname: HostName lines with tokens, and User and
\* Port lines before and after them
\* ------------------------------------------------------------------------

MaxHostnameLines == 4

LineHostNamePercentH ==
    <<"H", "o", "s", "t", "N", "a", "m", "e", " ", "%", "h", ".", "e">>
LineHostNameUserPort ==
    <<"h", "o", "s", "t", "n", "a", "m", "e", " ", " ", "%", "u", "-", "%",
      "p", ".", "%", "H">>
ValuePercentHE == <<"%", "h", ".", "e">>
ValueUserPort == <<"%", "u", "-", "%", "p", ".", "%", "H">>

\* the HostName lines of SpecHostname and the value each one carries
HostnameTable ==
    {[line |-> LineHostNamePercentH, value |-> ValuePercentHE],
     [line |-> LineHostNameUserPort, value |-> ValueUserPort]}

HostnameLines == {c.line : c \in HostnameTable}

HostnameValueOf(line) == (CHOOSE c \in HostnameTable : c.line = line).value

HostnamePool ==
    {HostAll, HostDb, LineUserBob, LinePort2022, LineHostNamePercentH,
     LineHostNameUserPort}

InitHostname ==
    InitWith(TextsOver(HostnamePool, MaxHostnameLines), {AliasWeb1},
             {Some(HomeBob)})

SpecHostname == InitHostname /\ [][NextParse]_vars

\* the value a line of a matching block gave a field within the first n
\* lines, the default if that line was not applied
ValueAt(ls, n, line, set, default) ==
    IF AppliedIndexes(ls, n, host, {line}) = {} THEN default ELSE set

RECURSIVE ExpectedHostName(_, _)
\* host_name after the first n lines: the alias until a HostName line is
\* applied; an applied HostName line gives the five passes over its value
\* with the user and the port set above that line and the host_name
\* assigned before it
ExpectedHostName(ls, n) ==
    IF n = 0 THEN host
    ELSE IF n \in AppliedIndexes(ls, n, host, HostnameLines)
    THEN FivePasses(HostnameValueOf(ls[n]),
                    [user |-> ValueAt(ls, n - 1, LineUserBob,
                                      <<"b", "o", "b">>, CurrentUser),
                     host_name |-> ExpectedHostName(ls, n - 1),
                     port |-> ValueAt(ls, n - 1, LinePort2022, 2022, 22)])
    ELSE ExpectedHostName(ls, n - 1)

Web1EE == <<"w", "e", "b", "1", ".", "e", ".", "e">>
BobPortWeb1 ==
    <<"b", "o", "b", "-", "2", "2", ".", "w", "e", "b", "1">>

\* C14: immediate expansion of Hostname.  A HostName line of a matching
\* block sets host_name to the expansion of its value against the profile
\* as it is at that line: %h and %H give the alias if no HostName line was
\* applied before and the host_name assigned before otherwise, %u and %p
\* give the user and the port set by the lines above; User and Port lines
\* behind the HostName line leave host_name as it was assigned.
C14_ImmediateExpansion ==
    LET ls == RawLines(file)
    IN /\ config.host_name = ExpectedHostName(ls, pos)
       /\ ret.kind = "Ok" => ret.profile[1].host_name = config.host_name
       /\ (pos = 3 /\ SubSeq(ls, 1, 3) =
               <<HostAll, LineHostNamePercentH, LineHostNamePercentH>>)
          => config.host_name = Web1EE
       /\ (pos = 3 /\ SubSeq(ls, 1, 3) =
               <<HostAll, LineUserBob, LineHostNameUserPort>>)
          => config.host_name = BobPortWeb1

\* User above the HostName line and Port behind it: %u gave the user of the
\* line above, %p the default port although the profile ends with 2022
C14_Witness ==
    /\ RawLines(file) =
           <<HostAll, LineUserBob, LineHostNameUserPort, LinePort2022>>
    /\ ret.kind = "Ok"
    /\ ret.profile[1].port = 2022
    /\ ret.profile[1].host_name = BobPortWeb1


\* ------------------------------------------------------------------------
\* Specification SpecNoHome: path directives with and without "~/", in
\* matching and non-matching blocks, without a home directory
\* ------------------------------------------------------------------------

MaxNoHomeLines == 3

\* the lines whose value starts with "~/" once a pair of quotes is taken off
TildeLines == {LineIdentityTilde, NoiseQuotedTilde}

NoHomePool ==
    {HostAll, HostDb, LineUserBob, LineIdentityK1, LineIdentityOpenQuoteTilde}
    \cup TildeLines

InitNoHome ==
    InitWith(TextsOver(NoHomePool, MaxNoHomeLines), {AliasWeb1}, {None})

SpecNoHome == InitNoHome /\ [][NextParse]_vars

\* the first line of a matching block whose value needs the home directory,
\* 0 if there is none
FirstTildeLine(ls) ==
    LET needing == AppliedIndexes(ls, Len(ls), host, TildeLines)
    IN IF needing = {} THEN 0
       ELSE CHOOSE i \in needing : \A j \in needing : i <= j

\* C15: NoHome.  Without a home directory parse returns NoHome exactly when
\* an IdentityFile or UserKnownHostsFile line of a matching block has a
\* value that starts with "~/" after quote stripping; the error is returned
\* at the first such line, no line behind it is processed and no profile is
\* returned; without such a line parse returns Ok.
C15_NoHome ==
    LET first == FirstTildeLine(RawLines(file))
    IN /\ ret.kind \in {"Running", "Ok", "NoHome"}
       /\ ret.kind = "Running" => first = 0 \/ pos < first
       /\ ret.kind = "NoHome" =>
              first # 0 /\ pos = first /\ ret.profile = None
       /\ ret.kind = "Ok" =>
              first = 0 /\ pos = Len(lines) /\ ret.profile = Some(config)

\* parse returned NoHome at the second line, a quoted "~/", and the User
\* line behind it was never read
C15_Witness ==
    /\ RawLines(file) = <<HostAll, NoiseQuotedTilde, LineUserBob>>
    /\ ret = [kind |-> "NoHome", profile |-> None]
    /\ pos = 2
    /\ config.user = CurrentUser


\* ------------------------------------------------------------------------
\* Specification SpecFrame: one directive of every kind, an unknown key, a
\* comment and one-token lines, inside and outside a matching block
\* ------------------------------------------------------------------------

MaxFrameLines == 2

LineCompression ==
    <<"C", "o", "m", "p", "r", "e", "s", "s", "i", "o", "n", " ", "y", "e",
      "s">>
LineCommentUser ==
    <<"#", " ", "U", "s", "e", "r", " ", "c", "a", "r", "o", "l">>
LinePortAlone == <<"P", "o", "r", "t">>

\* one directive for every field and the value it is expected to store
FrameTable ==
    {[line |-> LineUserPercentH, field |-> "user",
      expect |-> <<"%", "h">>],
     [line |-> LineHostNameH1, field |-> "host_name",
      expect |-> <<"h", "1">>],
     [line |-> LinePort2022, field |-> "port", expect |-> 2022],
     [line |-> LineIdentityK1, field |-> "identity_file",
      expect |-> Some(<<"/", "k", "1">>)],
     [line |-> LineProxyCommandA, field |-> "proxy_command",
      expect |-> Some(<<"n", "c", " ", "a">>)],
     [line |-> LineProxyJump1, field |-> "proxy_jump",
      expect |-> Some(<<"j", "1">>)],
     [line |-> LineAgentYes, field |-> "add_keys_to_agent",
      expect |-> "Yes"],
     [line |-> LineKnownU1, field |-> "user_known_hosts_file",
      expect |-> Some(<<"/", "u", "1">>)],
     [line |-> LineStrictNo, field |-> "strict_host_key_checking",
      expect |-> FALSE]}

FrameDirectives == {c.line : c \in FrameTable}

FrameEntry(line) == CHOOSE c \in FrameTable : c.line = line

\* lines that are no directive: unknown key, comment, fewer than two tokens
InertLines == {LineCompression, LineCommentUser, LinePortAlone, NoiseEmpty}

FramePool == FrameDirectives \cup InertLines \cup {HostDb}

\* the texts of SpecFrame: lines of the pool, at the top of the text or
\* below "Host *"
FrameTexts ==
    {JoinLines(block \o ls) :
        block \in {<<>>, <<HostAll>>},
        ls \in UNION {[1..k -> FramePool] : k \in 0..MaxFrameLines}}

InitFrame == InitWith(FrameTexts, {AliasWeb1}, {Some(HomeBob)})

SpecFrame == InitFrame /\ [][NextParse]_vars

\* C16: frame of a directive.  In every iteration of the loop: a directive
\* processed while the flag is set stores its value in its own field (User
\* stores "%h" as written) and leaves the other eight fields as they were;
\* a line with an unknown key, a comment line, a line with fewer than two
\* tokens and a directive processed while the flag is clear leave the whole
\* profile as it was; none of them changes the flag.
C16_DirectiveFrame ==
    [][pos' = pos + 1 =>
         LET line == RawLines(file)[pos']
         IN /\ line \in InertLines =>
                   config' = config /\ matches_current' = matches_current
            /\ line \in FrameDirectives =>
                   /\ matches_current' = matches_current
                   /\ ~matches_current => config' = config
                   /\ matches_current =>
                          LET c == FrameEntry(line)
                          IN /\ config'[c.field] = c.expect
                             /\ \A g \in Fields \ {c.field} :
                                    config'[g] = config[g]]_vars

\* below "Host *" a ProxyJump line after a ProxyCommand line: both fields
\* are set, each by its own line
C16_Witness ==
    /\ RawLines(file) = <<HostAll, LineProxyCommandA, LineProxyJump1>>
    /\ pos = 3
    /\ config = [ConfigDefault(host) EXCEPT
                     !.proxy_command = Some(<<"n", "c", " ", "a">>),
                     !.proxy_jump = Some(<<"j", "1">>)]


\* ------------------------------------------------------------------------
\* Specification SpecSplit: proxy commands with spaces, quotes and tokens
\* that expand to nothing or to a value with a space in it
\* ------------------------------------------------------------------------

MaxSplitLen == 3

SplitAlphabet == {" ", "a", "%", "h", "u"}

AliasEmpty == <<>>

LineUserAB == <<"U", "s", "e", "r", " ", "a", " ", "b">>
TemplateQuoted == <<"n", "c", " ", "'", "a", " ", "b", "'">>

SplitTemplates ==
    UNION {[1..k -> SplitAlphabet] : k \in 1..MaxSplitLen}
    \cup {TemplateNetcat, TemplateQuoted}

SplitBlocks == {<<HostAll>>, <<HostAll, LineUserAB>>}

SplitTexts ==
    {JoinLines(b) : b \in SplitBlocks}
    \cup {JoinLines(Append(b, KeyProxyCommand \o t)) :
              b \in SplitBlocks, t \in SplitTemplates}

InitSplit == InitWith(SplitTexts, {AliasEmpty, AliasWeb1}, {Some(HomeBob)})

SpecSplit == InitSplit /\ [][Next]_vars

SpacesIn(s) == Cardinality({i \in 1..Len(s) : s[i] = " "})

\* C17: proxy command splitting.  The command name and the arguments handed
\* to the provider are the pieces of the expanded command between its
\* spaces, every single space being a separator and quotes being ordinary
\* characters: the pieces hold no space, there is one more piece than there
\* are spaces, and joined by single spaces they give the expanded command
\* again.  An empty expanded command gives the command name "" and no
\* argument, a command without a space gives no argument, and two spaces in
\* a row give an empty argument.
C17_ProxySplitting ==
    ProxySpawned =>
        LET self == ret.profile[1]
            expanded == FivePasses(self.proxy_command[1], self)
            cmd == calls[1].cmd
            args == calls[1].args
            pieces == <<cmd>> \o args
        IN /\ JoinWith(pieces, <<" ">>) = expanded
           /\ \A i \in 1..Len(pieces) : SpacesIn(pieces[i]) = 0
           /\ Len(pieces) = SpacesIn(expanded) + 1
           /\ expanded = <<>> => cmd = <<>> /\ args = <<>>
           /\ SpacesIn(expanded) = 0 => cmd = expanded /\ args = <<>>
           /\ (self.proxy_command[1] = TemplateNetcat /\ host = AliasWeb1)
              => /\ cmd = <<"n", "c">>
                 /\ args = <<<<>>, AliasWeb1, <<"2", "2">>>>
           /\ self.proxy_command[1] = TemplateQuoted
              => /\ cmd = <<"n", "c">>
                 /\ args = <<<<"'", "a">>, <<"b", "'">>>>

\* "nc  %h %p" was spawned as nc with an empty first argument
C17_Witness ==
    /\ ProxySpawned
    /\ ret.profile[1].proxy_command = Some(TemplateNetcat)
    /\ calls[1].cmd = <<"n", "c">>
    /\ calls[1].args = <<<<>>, AliasWeb1, <<"2", "2">>>>

\* "%h" with an empty alias was spawned as the command "" without arguments
C17_EmptyCommandSpawned ==
    /\ ProxySpawned
    /\ host = AliasEmpty
    /\ ret.profile[1].proxy_command = Some(<<"%", "h">>)
    /\ calls[1].cmd = <<>>
    /\ calls[1].args = <<>>


\* ------------------------------------------------------------------------
\* Specification SpecPreamble: directives above the first Host line, with
\* matching and non-matching blocks below them
\* ------------------------------------------------------------------------

MaxPreambleLines == 3

PreamblePool ==
    {HostAll, HostDb, LineUserAlice, LineHostNameH1, LinePort2022,
     LineIdentityK1, LineAgentYes, LineStrictNo}

InitPreamble ==
    InitWith(TextsOver(PreamblePool, MaxPreambleLines),
             {AliasWeb1, AliasDb}, {Some(HomeBob)})

SpecPreamble == InitPreamble /\ [][NextParse]_vars

\* the first n lines of ls hold no Host line
NoHostLineIn(ls, n) == \A i \in 1..n : ~IsTableHostLine(ls[i])

\* C18: the parser starts with the flag clear.  As long as no Host line has
\* been processed the flag is clear and the profile is the seeded defaults,
\* whatever directives came and for every alias; and a field differs from
\* its default only if a directive for that field was processed with a Host
\* line that matches the alias somewhere above it.
C18_StartsNotMatching ==
    LET ls == RawLines(file)
    IN /\ NoHostLineIn(ls, pos) =>
              ~matches_current /\ config = ExpectedDefaults(host)
       /\ \A f \in Fields :
              config[f] # ExpectedDefaults(host)[f] =>
                  \E i \in 1..pos, j \in 1..pos :
                      /\ i < j
                      /\ IsTableHostLine(ls[i])
                      /\ ExpectedHostMatch(ls[i], host)
                      /\ ls[j] \in DirectiveLines(f)
       /\ ret.kind = "Ok" => ret.profile = Some(config)

\* a User line above the first Host line and a Port line below it: parse
\* returned the default user and the port of the Port line
C18_Witness ==
    /\ RawLines(file) = <<LineUserAlice, HostAll, LinePort2022>>
    /\ ret.kind = "Ok"
    /\ ret.profile[1].user = CurrentUser
    /\ ret.profile[1].port = 2022


\* Host lines without a pattern: one token once the line is trimmed
BareHostLines == {LineHostBare, LineHostBarePadded}

\* C19: a bare Host line.  A Host line without a pattern is skipped like any
\* one-token line: processing it changes neither the flag nor the profile,
\* so the directive on the line below it is applied if the Host line with
\* patterns last seen above matched the alias, and ignored if that line did
\* not match or there was none.
C19_BareHostLine ==
    [][pos' = pos + 1 =>
         LET ls == RawLines(file)
             line == ls[pos']
         IN /\ line \in BareHostLines =>
                   matches_current' = matches_current /\ config' = config
            /\ (pos >= 1 /\ ls[pos] \in BareHostLines /\ line = LineUserBob)
               => config'.user = IF ExpectMatching(ls, pos, host)
                                 THEN <<"b", "o", "b">>
                                 ELSE config.user
            /\ (pos >= 1 /\ ls[pos] \in BareHostLines /\ line = LinePort2022)
               => config'.port = IF ExpectMatching(ls, pos, host)
                                 THEN 2022
                                 ELSE config.port]_vars

\* "Host *", a bare Host line, then a User line: the User line was applied
C19_Witness ==
    /\ RawLines(file) = <<HostAll, LineHostBare, LineUserBob>>
    /\ pos = 3
    /\ matches_current
    /\ config.user = <<"b", "o", "b">>

\* a non-matching Host line, a bare Host line, then a User line: the User
\* line was ignored
C19_StillIgnored ==
    /\ RawLines(file) = <<HostDb, LineHostBarePadded, LineUserBob>>
    /\ pos = 3
    /\ ~matches_current
    /\ config.user = CurrentUser


\* ------------------------------------------------------------------------
\* Specification SpecSpaces: directives with two or more spaces between the
\* key and the value
\* ------------------------------------------------------------------------

MaxSpaceLines == 2

LineUserTwo == <<"U", "s", "e", "r", " ", " ", "b", "o", "b">>
LinePortTwo == <<"P", "o", "r", "t", " ", " ", "2", "0", "2", "2">>
LineIdentityTwo ==
    <<"I", "d", "e", "n", "t", "i", "t", "y", "F", "i", "l", "e", " ", " ",
      "/", "k", "1">>
LineProxyCommandTwo ==
    <<"P", "r", "o", "x", "y", "C", "o", "m", "m", "a", "n", "d", " ", " ",
      "n", "c", " ", " ", "a">>
LineProxyJumpThree ==
    <<"P", "r", "o", "x", "y", "J", "u", "m", "p", " ", " ", " ", "j", "1">>
LineKnownTwo ==
    <<"U", "s", "e", "r", "K", "n", "o", "w", "n", "H", "o", "s", "t", "s",
      "F", "i", "l", "e", " ", " ", "/", "u", "1">>
LineAgentTwo ==
    <<"A", "d", "d", "K", "e", "y", "s", "T", "o", "A", "g", "e", "n", "t",
      " ", " ", "y", "e", "s">>
LineStrictTwo ==
    <<"S", "t", "r", "i", "c", "t", "H", "o", "s", "t", "K", "e", "y", "C",
      "h", "e", "c", "k", "i", "n", "g", " ", " ", "n", "o">>

\* the lines of SpecSpaces and what each one is expected to store
SpaceTable ==
    {[line |-> LineUserTwo, field |-> "user", expect |-> <<"b", "o", "b">>],
     [line |-> LineHostNameH2, field |-> "host_name",
      expect |-> <<"h", "2">>],
     [line |-> LinePortTwo, field |-> "port", expect |-> 2022],
     [line |-> LineIdentityTwo, field |-> "identity_file",
      expect |-> Some(<<"/", "k", "1">>)],
     [line |-> LineProxyCommandTwo, field |-> "proxy_command",
      expect |-> Some(<<"n", "c", " ", " ", "a">>)],
     [line |-> LineProxyJumpThree, field |-> "proxy_jump",
      expect |-> Some(<<"j", "1">>)],
     [line |-> LineKnownTwo, field |-> "user_known_hosts_file",
      expect |-> Some(<<"/", "u", "1">>)],
     [line |-> LineAgentTwo, field |-> "add_keys_to_agent", expect |-> "No"],
     [line |-> LineAgentAsk, field |-> "add_keys_to_agent",
      expect |-> "Ask"],
     [line |-> LineStrictTwo, field |-> "strict_host_key_checking",
      expect |-> TRUE],
     [line |-> LineStrictNo, field |-> "strict_host_key_checking",
      expect |-> FALSE]}

SpaceLines(f) == {c.line : c \in {d \in SpaceTable : d.field = f}}

SpaceExpectOf(line) == (CHOOSE c \in SpaceTable : c.line = line).expect

\* the texts of SpecSpaces: "Host *" and lines of the table below it
SpaceTexts ==
    {JoinLines(<<HostAll>> \o ls) :
        ls \in UNION {[1..k -> {c.line : c \in SpaceTable}] :
                          k \in 0..MaxSpaceLines}}

InitSpaces == InitWith(SpaceTexts, {AliasWeb1}, {Some(HomeBob)})

SpecSpaces == InitSpaces /\ [][NextParse]_vars

\* C20: the line is cut at its first space only, and the white space that
\* this leaves at the head of the value is taken off for user, hostname,
\* port, identityfile, proxycommand, proxyjump and userknownhostsfile but
\* not for addkeystoagent and stricthostkeychecking.  With two or more
\* spaces behind the key, "Port  2022" gives port 2022 and the other five
\* store the value without the spaces at its head (spaces inside it are
\* kept), while "AddKeysToAgent  yes" gives No and
\* "StrictHostKeyChecking  no" gives true.
C20_ValueWhitespace ==
    LET ls == RawLines(file)
    IN \A f \in Fields :
           LET applied == {j \in 1..pos : ls[j] \in SpaceLines(f)}
           IN config[f] = IF applied = {} THEN ExpectedDefaults(host)[f]
                          ELSE SpaceExpectOf(ls[Max(applied)])

\* the agent was set to Ask with one space, then "AddKeysToAgent  yes"
\* came with two: parse returned No
C20_Witness ==
    /\ RawLines(file) = <<HostAll, LineAgentAsk, LineAgentTwo>>
    /\ ret.kind = "Ok"
    /\ ret.profile[1].add_keys_to_agent = "No"

\* strict checking was switched off with one space, then
\* "StrictHostKeyChecking  no" came with two: parse returned true
C20_StrictBackOn ==
    /\ RawLines(file) = <<HostAll, LineStrictNo, LineStrictTwo>>
    /\ ret.kind = "Ok"
    /\ ret.profile[1].strict_host_key_checking = TRUE

====
